---- MODULE Spec2Model ----
(***************************************************************************)
(* Derived-metrics and multi-factor rating engine of Nifty500-agent.       *)
(*                                                                         *)
(* Numbers.  A Python number is modelled as a fixed-point integer counting *)
(* thousandths (110.0 is 110000), so that round(x, 2) has something to     *)
(* round.  Quotients are kept as exact fractions n/d until the code rounds *)
(* them.  round(x, 2) returns a nearest multiple of 0.01; when the exact   *)
(* value lies half-way between two of them the binary float the code holds *)
(* is on either side (or exactly on it, and Python rounds half to even),   *)
(* so the direction of a half-way rounding is the variable fp_tie.         *)
(*                                                                         *)
(* A value is a record [kind, val]: kind "null" is None, kind "num" a      *)
(* number (val in thousandths).                                            *)
(***************************************************************************)
EXTENDS Integers, Sequences, FiniteSets, TLC

VARIABLES
    fp_tie,           \* direction of half-way roundings: "even", "down", "up"
    \* ---- minmax_score applied to drawn arguments
    mm_args,          \* [value, min_val, max_val, invert]
    mm_pc,            \* "drawn", then "returned"
    mm_out,           \* the fraction minmax_score returned
    \* ---- score_from_row applied to drawn rows
    sc_row,           \* the derived row (dict) passed as row
    sc_cons,          \* the raw row passed as cons_row
    sc_pc,            \* "drawn" or "spoiled", then "returned" or "raised"
    sc_out,           \* the dict score_from_row returned
    sc_edits,         \* number of fields changed since the initial row
    \* ---- calc_ratings.main
    cons_master,      \* rows fetched from consolidated_master, in fetch order
    derived_master,   \* rows fetched from derived_master, by ticker
    rt_pc,            \* "score" (first loop), "rank" (second loop), "done"
    rt_i,             \* position of the running loop, 1-based
    ratings_entries,  \* the list ratings_entries
    ratings_master,   \* the table ratings_master, by ticker
    upsert_log,       \* the rows passed to upsert_ratings_master, in order
    \* ---- compute_derived applied to drawn snapshot rows
    dv_row,           \* the consolidated_master row passed as row
    dv_pc,            \* "drawn", then "returned" or "raised"
    dv_out,           \* what compute_derived did: [raised, derived]
    \* ---- clean_numeric applied to drawn arguments
    cn_args,          \* [value, max_value]
    cn_pc,            \* "drawn", then "returned" or "raised"
    cn_out,           \* the value returned, or the exception raised
    cn_late,          \* what the clean_numeric at the end of calc_ratings.py returns
    \* ---- run_full_pipeline: the derive and ratings steps, run twice
    clock,            \* the date the system clock shows
    today,            \* the local today of the running main
    pl_pc,            \* "start", "derive", "ratings", "done"
    pl_run,           \* the number of the run under way: 1 or 2
    pl_i,             \* position of the loop of calc_derived_value.main, 1-based
    pl_first,         \* the two tables as the first run left them
    \* ---- run_full_pipeline.py and orchestrator.py run as scripts
    rn_script,        \* the runner: "run_full_pipeline" or "orchestrator"
    rn_env,           \* whether TELEGRAM_BOT_TOKEN and TELEGRAM_CHAT_ID are set
    rn_pc,            \* "loop", "child", "except", "exited"
    rn_k,             \* position of "for name, script in PIPELINE_STEPS", 1-based
    rn_error,         \* the exception on its way to the handler, or "none"
    rn_log,           \* what run_step found and did: scripts missing, started, ended
    rn_notes,         \* the calls of notify, in order
    rn_status,        \* the exit status of the runner, Null while it runs
    \* ---- yfin_staging.main and screenr_stage.main
    st_script,        \* the staging script: "yfin_staging" or "screenr_stage"
    st_tickers,       \* the list tickers after the optional cap
    st_i,             \* position of "for i, ticker in enumerate(tickers, start=1)"
    st_pc,            \* "fetch" (inside the fetch function), "returned", "done"
    st_attempt,       \* attempt of the running fetch function
    st_call,          \* the running call: outcomes of its attempts, its waits, its result
    st_fetched,       \* the calls that returned: ticker, attempts, whether with data
    st_stage,         \* the staging table, by ticker
    st_upserts        \* the rows passed to the upsert function, in order

vars == <<fp_tie, mm_args, mm_pc, mm_out, sc_row, sc_cons, sc_pc, sc_out, sc_edits,
          cons_master, derived_master, rt_pc, rt_i, ratings_entries, ratings_master,
          upsert_log, dv_row, dv_pc, dv_out, cn_args, cn_pc, cn_out, cn_late,
          clock, today, pl_pc, pl_run, pl_i, pl_first,
          rn_script, rn_env, rn_pc, rn_k, rn_error, rn_log, rn_notes, rn_status,
          st_script, st_tickers, st_i, st_pc, st_attempt, st_call, st_fetched, st_stage,
          st_upserts>>

st_vars == <<st_script, st_tickers, st_i, st_pc, st_attempt, st_call, st_fetched, st_stage,
             st_upserts>>

rn_vars == <<rn_script, rn_env, rn_pc, rn_k, rn_error, rn_log, rn_notes, rn_status>>

pl_vars == <<clock, today, pl_pc, pl_run, pl_i, pl_first>>

dv_vars == <<dv_row, dv_pc, dv_out>>

cn_vars == <<cn_args, cn_pc, cn_out, cn_late>>

rt_vars == <<cons_master, derived_master, rt_pc, rt_i, ratings_entries, ratings_master,
             upsert_log>>

mm_vars == <<mm_args, mm_pc, mm_out>>

sc_vars == <<sc_row, sc_cons, sc_pc, sc_out, sc_edits>>

-----------------------------------------------------------------------------
(* Values *)

Null == [kind |-> "null", val |-> 0]

Num(n) == [kind |-> "num", val |-> n]

IsNull(v) == v.kind = "null"

IsNum(v) == v.kind = "num"

\* a Python int that is a position or a count
PyInt(n) == [kind |-> "int", val |-> n]

\* dict.get(key): None when the key is absent
Get(row, key) == IF key \in DOMAIN row THEN row[key] ELSE Null

\* dict.get(key, default)
GetOr(row, key, default) == IF key \in DOMAIN row THEN row[key] ELSE default

\* an exception raised instead of a value
Raise(exc) == [kind |-> "raise", val |-> exc]

IsRaise(v) == v.kind = "raise"

TieModes == {"even", "down", "up"}

-----------------------------------------------------------------------------
(* Exact arithmetic *)

Abs(x) == IF x < 0 THEN -x ELSE x

RECURSIVE GCD(_, _)
GCD(a, b) == IF b = 0 THEN Abs(a) ELSE GCD(b, a % b)

\* the fraction n/d in lowest terms with a positive denominator
Frac(n, d) ==
    LET g == GCD(Abs(n), Abs(d))
        s == IF d < 0 THEN -1 ELSE 1
    IN  [n |-> s * (n \div g), d |-> s * (d \div g)]

FracAdd(a, b) ==
    LET l == (a.d \div GCD(a.d, b.d)) * b.d
    IN  Frac(a.n * (l \div a.d) + b.n * (l \div b.d), l)

FracScale(k, a) ==
    LET g == GCD(Abs(k), a.d)
    IN  Frac((k \div g) * a.n, a.d \div g)

FracLeq(a, b) == a.n * b.d <= b.n * a.d

\* the integer nearest to n/d (d > 0); a half-way case goes as fp_tie says
RoundDiv(n, d) ==
    LET q == n \div d
        r == n - q * d
    IN  IF r < d - r THEN q
        ELSE IF r > d - r THEN q + 1
        ELSE CASE fp_tie = "down" -> q
               [] fp_tie = "up"   -> q + 1
               [] OTHER           -> IF q % 2 = 0 THEN q ELSE q + 1

\* round(x, 2) of the exact value x = f.n / f.d, in thousandths: the whole part
\* and the rounded hundredths of the rest
Round2(f) ==
    LET whole == f.n \div f.d
        rest  == f.n - whole * f.d
    IN  10 * (100 * whole + RoundDiv(100 * rest, f.d))

-----------------------------------------------------------------------------
(* calc_ratings.py: minmax_score *)

\* max(0, min(1, score)) of a fraction
Clamp01(f) ==
    LET low == IF FracLeq(Frac(1, 1), f) THEN Frac(1, 1) ELSE f
    IN  IF FracLeq(low, Frac(0, 1)) THEN Frac(0, 1) ELSE low

\* variant: the inversion is applied to the default of a missing value as well
minmax_score_invert_default(value, min_val, max_val, invert) ==
    IF ~(IsNull(value) \/ IsNull(min_val) \/ IsNull(max_val) \/ max_val = min_val)
       /\ value.kind = "text"
    THEN Raise("TypeError")
    ELSE
    LET score == IF IsNull(value) \/ IsNull(min_val) \/ IsNull(max_val) \/ max_val = min_val
                 THEN Frac(0, 1)
                 ELSE Clamp01(Frac(value.val - min_val.val, max_val.val - min_val.val))
    IN  IF invert THEN FracAdd(Frac(1, 1), FracScale(-1, score)) ELSE score

\* variant: the clamp to [0, 1] is missing
minmax_score_unclamped(value, min_val, max_val, invert) ==
    IF IsNull(value) \/ IsNull(min_val) \/ IsNull(max_val) \/ max_val = min_val
    THEN Frac(0, 1)
    ELSE IF value.kind = "text" THEN Raise("TypeError")
    ELSE LET score == Frac(value.val - min_val.val, max_val.val - min_val.val)
         IN  IF invert THEN FracAdd(Frac(1, 1), FracScale(-1, score)) ELSE score

\* the result is a fraction, or Raise("TypeError") where value - min_val is
\* "str" - "int"
minmax_score(value, min_val, max_val, invert) ==
    IF IsNull(value) \/ IsNull(min_val) \/ IsNull(max_val) \/ max_val = min_val
    THEN Frac(0, 1)
    ELSE IF value.kind = "text" THEN Raise("TypeError")
    ELSE LET score == Clamp01(Frac(value.val - min_val.val, max_val.val - min_val.val))
         IN  IF invert THEN FracAdd(Frac(1, 1), FracScale(-1, score)) ELSE score

-----------------------------------------------------------------------------
(* calc_ratings.py: score_from_row *)

FracMul(a, b) == Frac(a.n * b.n, a.d * b.d)

\* a float literal such as 0.5, given in tenths
Tenths(k) == Frac(k, 10)

\* the number held by a value, as a fraction of units
AsFrac(v) == Frac(v.val, 1000)

RECURSIVE SumTerms(_)
SumTerms(terms) ==
    IF terms = <<>> THEN Frac(0, 1)
    ELSE FracAdd(FracMul(Head(terms)[1], Head(terms)[2]), SumTerms(Tail(terms)))

\* round(100 * (w1 * s1 + w2 * s2 + ...), 2) for terms <<w, s>>
Raised(x) == "kind" \in DOMAIN x /\ x.kind = "raise"

Score100(terms) ==
    IF \E i \in 1..Len(terms) : Raised(terms[i][2]) THEN Raise("TypeError")
    ELSE Num(Round2(FracScale(100, SumTerms(terms))))

MINMAX ==
    [roc              |-> <<Num(-50000), Num(100000)>>,
     momentum_pos     |-> <<Num(0), Num(100000)>>,
     gross_margin     |-> <<Num(0), Num(70000)>>,
     op_margin        |-> <<Num(0), Num(50000)>>,
     pe               |-> <<Num(5000), Num(50000)>>,
     peg              |-> <<Num(0), Num(3000)>>,
     eps_growth       |-> <<Num(-50000), Num(50000)>>,
     rev_growth       |-> <<Num(-50000), Num(50000)>>,
     cash_flow_margin |-> <<Num(-50000), Num(50000)>>,
     debt_to_equity   |-> <<Num(0), Num(2000)>>,
     beta             |-> <<Num(0), Num(2000)>>]

\* minmax_score(v, *MINMAX[band]) and minmax_score(v, *MINMAX[band], invert=True)
Norm(v, band) == minmax_score(v, MINMAX[band][1], MINMAX[band][2], FALSE)

NormInv(v, band) == minmax_score(v, MINMAX[band][1], MINMAX[band][2], TRUE)

momentum_score(row) ==
    Score100(<< <<Tenths(5), Norm(Get(row, "price_return_12m_pct"), "roc")>>,
                <<Tenths(3), Norm(Get(row, "position_52w_pct"), "momentum_pos")>>,
                <<Tenths(2), Norm(Get(row, "price_return_3m_pct"), "roc")>> >>)

quality_score(row) ==
    Score100(<< <<Tenths(5), Norm(Get(row, "gross_margin_pct"), "gross_margin")>>,
                <<Tenths(3), Norm(Get(row, "operating_margin_pct"), "op_margin")>>,
                <<Tenths(2), minmax_score(Get(row, "net_margin_pct"), Num(0), Num(40000), FALSE)>> >>)

\* variant: P/E is looked up in the derived row
valuation_score_pe_from_row(row, cons_row) ==
    Score100(<< <<Tenths(4), NormInv(Get(row, "pe_ratio_trailing"), "pe")>>,
                <<Tenths(4), NormInv(Get(row, "peg_ratio"), "peg")>>,
                <<Tenths(2), minmax_score(Get(row, "dividend_yield_pct"), Num(0), Num(10000), FALSE)>> >>)

\* pe = cons_row.get("pe_ratio_trailing") if cons_row else None: an absent or
\* empty cons_row is the empty dict here
valuation_score(row, cons_row) ==
    Score100(<< <<Tenths(4), NormInv(Get(cons_row, "pe_ratio_trailing"), "pe")>>,
                <<Tenths(4), NormInv(Get(row, "peg_ratio"), "peg")>>,
                <<Tenths(2), minmax_score(Get(row, "dividend_yield_pct"), Num(0), Num(10000), FALSE)>> >>)

growth_score(row) ==
    Score100(<< <<Tenths(6), Norm(Get(row, "eps_growth_12m_pct"), "eps_growth")>>,
                <<Tenths(4), Norm(Get(row, "revenue_growth_12m_pct"), "rev_growth")>> >>)

financial_stability_score(row) ==
    Score100(<< <<Tenths(6), NormInv(Get(row, "debt_to_equity"), "debt_to_equity")>>,
                <<Tenths(4), NormInv(Get(row, "beta"), "beta")>> >>)

cash_flow_score(row) ==
    Score100(<< <<Tenths(5), Norm(Get(row, "free_cash_flow_margin"), "cash_flow_margin")>>,
                <<Tenths(5), Norm(Get(row, "operating_cash_flow_margin"), "cash_flow_margin")>> >>)

\* variant: the weights of growth and financial stability are exchanged
composite_score_swapped_weights(scores) ==
    Num(Round2(SumTerms(<< <<Tenths(2), AsFrac(scores.momentum_score)>>,
                           <<Tenths(2), AsFrac(scores.quality_score)>>,
                           <<Tenths(2), AsFrac(scores.valuation_score)>>,
                           <<Tenths(1), AsFrac(scores.growth_score)>>,
                           <<Tenths(2), AsFrac(scores.financial_stability_score)>>,
                           <<Tenths(1), AsFrac(scores.cash_flow_score)>> >>)))

composite_score(scores) ==
    Num(Round2(SumTerms(<< <<Tenths(2), AsFrac(scores.momentum_score)>>,
                           <<Tenths(2), AsFrac(scores.quality_score)>>,
                           <<Tenths(2), AsFrac(scores.valuation_score)>>,
                           <<Tenths(2), AsFrac(scores.growth_score)>>,
                           <<Tenths(1), AsFrac(scores.financial_stability_score)>>,
                           <<Tenths(1), AsFrac(scores.cash_flow_score)>> >>)))

\* variant: the comparisons are strict
Banding_strict(cs) ==
    IF cs.val > 80000 THEN [rating |-> "A", action |-> "BUY"]
    ELSE IF cs.val > 65000 THEN [rating |-> "B", action |-> "ACCUMULATE"]
    ELSE IF cs.val > 50000 THEN [rating |-> "C", action |-> "HOLD"]
    ELSE [rating |-> "D", action |-> "AVOID"]

\* the rating/action pair chosen by the if/elif chain on cs
Banding(cs) ==
    IF cs.val >= 80000 THEN [rating |-> "A", action |-> "BUY"]
    ELSE IF cs.val >= 65000 THEN [rating |-> "B", action |-> "ACCUMULATE"]
    ELSE IF cs.val >= 50000 THEN [rating |-> "C", action |-> "HOLD"]
    ELSE [rating |-> "D", action |-> "AVOID"]

\* scores after the six category scores are stored
category_scores(row, cons_row) ==
    [momentum_score            |-> momentum_score(row),
     quality_score             |-> quality_score(row),
     valuation_score           |-> valuation_score(row, cons_row),
     growth_score              |-> growth_score(row),
     financial_stability_score |-> financial_stability_score(row),
     cash_flow_score           |-> cash_flow_score(row)]

\* scores["composite_score"] = ...
with_composite(scores) ==
    [momentum_score            |-> scores.momentum_score,
     quality_score             |-> scores.quality_score,
     valuation_score           |-> scores.valuation_score,
     growth_score              |-> scores.growth_score,
     financial_stability_score |-> scores.financial_stability_score,
     cash_flow_score           |-> scores.cash_flow_score,
     composite_score           |-> composite_score(scores)]

with_band(scores, band) ==
    [momentum_score            |-> scores.momentum_score,
     quality_score             |-> scores.quality_score,
     valuation_score           |-> scores.valuation_score,
     growth_score              |-> scores.growth_score,
     financial_stability_score |-> scores.financial_stability_score,
     cash_flow_score           |-> scores.cash_flow_score,
     composite_score           |-> scores.composite_score,
     rating                    |-> band.rating,
     action                    |-> band.action]

\* cs = scores["composite_score"]; scores['rating'], scores['action'] = ...
with_banding(scores) == with_band(scores, Banding(scores.composite_score))

\* the dict returned, or the exception a category score raised
finish(scores) ==
    IF \E k \in DOMAIN scores : IsRaise(scores[k]) THEN Raise("TypeError")
    ELSE with_banding(with_composite(scores))

score_from_row(row, cons_row) == finish(category_scores(row, cons_row))

-----------------------------------------------------------------------------
(* Input rows *)

\* the derived_master columns score_from_row reads, with the band each is
\* normalised in and whether the factor is inverted
ScoreInputs ==
    { <<"price_return_12m_pct", Num(-50000), Num(100000), FALSE>>,
      <<"position_52w_pct", Num(0), Num(100000), FALSE>>,
      <<"price_return_3m_pct", Num(-50000), Num(100000), FALSE>>,
      <<"gross_margin_pct", Num(0), Num(70000), FALSE>>,
      <<"operating_margin_pct", Num(0), Num(50000), FALSE>>,
      <<"net_margin_pct", Num(0), Num(40000), FALSE>>,
      <<"peg_ratio", Num(0), Num(3000), TRUE>>,
      <<"dividend_yield_pct", Num(0), Num(10000), FALSE>>,
      <<"eps_growth_12m_pct", Num(-50000), Num(50000), FALSE>>,
      <<"revenue_growth_12m_pct", Num(-50000), Num(50000), FALSE>>,
      <<"debt_to_equity", Num(0), Num(2000), TRUE>>,
      <<"beta", Num(0), Num(2000), TRUE>>,
      <<"free_cash_flow_margin", Num(-50000), Num(50000), FALSE>>,
      <<"operating_cash_flow_margin", Num(-50000), Num(50000), FALSE>> }

ScoreFields == { i[1] : i \in ScoreInputs }

\* the value that normalises to pct/100 in the band lo..hi
AtLevel(lo, hi, inv, pct) ==
    IF inv THEN Num(hi.val - ((hi.val - lo.val) * pct) \div 100)
    ELSE Num(lo.val + ((hi.val - lo.val) * pct) \div 100)

\* a derived row all of whose factors normalise to pct/100
LevelRow(pct) ==
    [f \in ScoreFields |->
        LET i == CHOOSE i \in ScoreInputs : i[1] = f
        IN  AtLevel(i[2], i[3], i[4], pct)]

LevelCons(pct) == [pe_ratio_trailing |-> AtLevel(Num(5000), Num(50000), TRUE, pct)]

\* a ticker without a derived_master row: derived_master.get(tkr, {})
EmptyRow == [f \in {} |-> Null]

Levels == {0, 50, 60, 65, 80, 85, 100}

SampleValues == {Null} \cup { Num(x) : x \in {-60000, 1500, 120000} }

\* a value one hundredth below or above v
Nudges(v) == IF IsNum(v) THEN {Num(v.val - 10), Num(v.val + 10)} ELSE {}

-----------------------------------------------------------------------------
(* calc_derived_value.py: clean_numeric *)

(* Raw values.  Besides None and numbers a raw field can hold the floats nan  *)
(* and +-inf (kind "nan"; kind "inf" with val 1 or -1), text (kind "text",    *)
(* val the characters, one string each), a bool or a list.                    *)

NaN == [kind |-> "nan", val |-> 0]

Inf(sign) == [kind |-> "inf", val |-> sign]

Text(chars) == [kind |-> "text", val |-> chars]

\* values of other types: True and False, the empty list
Bool(b) == [kind |-> "bool", val |-> IF b THEN 1 ELSE 0]

EmptyList == [kind |-> "list", val |-> 0]

Digits == <<"0", "1", "2", "3", "4", "5", "6", "7", "8", "9">>

IsDigit(c) == c \in {"0", "1", "2", "3", "4", "5", "6", "7", "8", "9"}

DigitVal(c) ==
    CASE c = "0" -> 0 [] c = "1" -> 1 [] c = "2" -> 2 [] c = "3" -> 3 [] c = "4" -> 4
      [] c = "5" -> 5 [] c = "6" -> 6 [] c = "7" -> 7 [] c = "8" -> 8 [] c = "9" -> 9

RECURSIVE DigitsOf(_)
DigitsOf(n) == IF n < 10 THEN <<Digits[n + 1]>> ELSE Append(DigitsOf(n \div 10), Digits[(n % 10) + 1])

\* str() of a number: sign, integer digits, point, three decimals
NumChars(m) ==
    LET a == Abs(m)
        f == a % 1000
    IN  (IF m < 0 THEN <<"-">> ELSE <<>>)
        \o DigitsOf(a \div 1000) \o <<".">>
        \o <<Digits[(f \div 100) + 1], Digits[((f \div 10) % 10) + 1], Digits[(f % 10) + 1]>>

\* str(value)
Str(value) ==
    CASE value.kind = "num"  -> NumChars(value.val)
      [] value.kind = "nan"  -> <<"n", "a", "n">>
      [] value.kind = "inf"  -> IF value.val < 0 THEN <<"-", "i", "n", "f">> ELSE <<"i", "n", "f">>
      [] value.kind = "text" -> value.val
      [] value.kind = "bool" -> IF value.val = 1 THEN <<"T", "r", "u", "e">>
                                ELSE <<"F", "a", "l", "s", "e">>
      [] value.kind = "list" -> <<"[", "]">>

\* s.replace(c, "")
Remove(s, c) == SelectSeq(s, LAMBDA x : x # c)

RECURSIVE LStrip(_)
LStrip(s) == IF s # <<>> /\ Head(s) = " " THEN LStrip(Tail(s)) ELSE s

RECURSIVE RStrip(_)
RStrip(s) == IF s # <<>> /\ s[Len(s)] = " " THEN RStrip(SubSeq(s, 1, Len(s) - 1)) ELSE s

\* s.strip()
Strip(s) == RStrip(LStrip(s))

RECURSIVE NatOf(_)
NatOf(ds) == IF ds = <<>> THEN 0 ELSE 10 * NatOf(SubSeq(ds, 1, Len(ds) - 1)) + DigitVal(ds[Len(ds)])

RECURSIVE Pow10(_)
Pow10(k) == IF k = 0 THEN 1 ELSE 10 * Pow10(k - 1)

Lower(c) == CASE c = "N" -> "n" [] c = "A" -> "a" [] c = "I" -> "i" [] c = "F" -> "f" [] OTHER -> c

\* float(s) for text without exponent or underscore: [kind |-> "finite", n, d],
\* "nan", "inf" (sign in n), or "error" where float() raises ValueError
ParseFloat(s) ==
    LET t     == Strip(s)
        neg   == t # <<>> /\ Head(t) = "-"
        body  == IF t # <<>> /\ Head(t) \in {"+", "-"} THEN Tail(t) ELSE t
        dots  == { i \in 1..Len(body) : body[i] = "." }
        dot   == IF dots = {} THEN Len(body) + 1 ELSE CHOOSE i \in dots : TRUE
        whole == SubSeq(body, 1, dot - 1)
        part  == SubSeq(body, dot + 1, Len(body))
        sign  == IF neg THEN -1 ELSE 1
    IN  IF /\ \A i \in 1..Len(body) : IsDigit(body[i]) \/ body[i] = "."
           /\ Cardinality(dots) <= 1
           /\ Len(whole) + Len(part) > 0
        THEN [kind |-> "finite",
              n |-> sign * (NatOf(whole) * Pow10(Len(part)) + NatOf(part)),
              d |-> Pow10(Len(part))]
        ELSE LET low == [i \in 1..Len(body) |-> Lower(body[i])]
             IN  IF low = <<"n", "a", "n">> THEN [kind |-> "nan", n |-> 0, d |-> 1]
                 ELSE IF low = <<"i", "n", "f">> THEN [kind |-> "inf", n |-> sign, d |-> 1]
                 ELSE [kind |-> "error", n |-> 0, d |-> 1]

\* max_value=9999999999.99.  TLC's integers have 32 bits, so the model
\* holds 9999.99: as in the source it lies above every sample price and ratio
\* and below the large samples, and it ends in .99.
max_value_default == 9999990

\* max_value=999.99, the default of the screener stages
max_value_screenr == 999990

\* variant: a value beyond the limit is rejected instead of saturated
clean_numeric_rejects_large(value, max_value) ==
    IF IsNull(value) THEN Null
    ELSE LET val_str == Strip(Remove(Remove(Str(value), ","), "%"))
             num     == ParseFloat(val_str)
             limit   == Frac(max_value, 1000)
         IN  IF val_str = <<>> THEN Null
             ELSE CASE num.kind = "error" -> Null
                    [] num.kind = "nan"   -> Null
                    [] num.kind = "inf"   -> Null
                    [] OTHER ->
                        LET x == Frac(num.n, num.d)
                        IN  IF ~FracLeq(x, limit) \/ ~FracLeq(FracScale(-1, limit), x)
                            THEN Null
                            ELSE Num(Round2(x))

\* variant: the math.isnan test is missing, NaN is returned as it is
clean_numeric_keeps_nan(value, max_value) ==
    IF IsNull(value) THEN Null
    ELSE LET val_str == Strip(Remove(Remove(Str(value), ","), "%"))
             num     == ParseFloat(val_str)
             limit   == Frac(max_value, 1000)
         IN  IF val_str = <<>> THEN Null
             ELSE CASE num.kind = "error" -> Null
                    [] num.kind = "nan"   -> NaN
                    [] num.kind = "inf"   -> Num(Round2(FracScale(num.n, limit)))
                    [] OTHER ->
                        LET x == Frac(num.n, num.d)
                        IN  IF ~FracLeq(x, limit) THEN Num(Round2(limit))
                            ELSE IF ~FracLeq(FracScale(-1, limit), x)
                                 THEN Num(Round2(FracScale(-1, limit)))
                            ELSE Num(Round2(x))

\* variant: without "except", the ValueError of float() leaves the function
clean_numeric_no_except(value, max_value) ==
    IF IsNull(value) THEN Null
    ELSE LET val_str == Strip(Remove(Remove(Str(value), ","), "%"))
             num     == ParseFloat(val_str)
             limit   == Frac(max_value, 1000)
         IN  IF val_str = <<>> THEN Null
             ELSE CASE num.kind = "error" -> [kind |-> "raise", val |-> "ValueError"]
                    [] num.kind = "nan"   -> Null
                    [] num.kind = "inf"   -> Num(Round2(FracScale(num.n, limit)))
                    [] OTHER ->
                        LET x == Frac(num.n, num.d)
                        IN  IF ~FracLeq(x, limit) THEN Num(Round2(limit))
                            ELSE IF ~FracLeq(FracScale(-1, limit), x)
                                 THEN Num(Round2(FracScale(-1, limit)))
                            ELSE Num(Round2(x))

clean_numeric(value, max_value) ==
    IF IsNull(value) THEN Null
    ELSE LET val_str == Strip(Remove(Remove(Str(value), ","), "%"))
             num     == ParseFloat(val_str)
             limit   == Frac(max_value, 1000)
         IN  IF val_str = <<>> THEN Null
             ELSE CASE num.kind = "error" -> Null
                    [] num.kind = "nan"   -> Null
                    [] num.kind = "inf"   -> Num(Round2(FracScale(num.n, limit)))
                    [] OTHER ->
                        LET x == Frac(num.n, num.d)
                        IN  IF ~FracLeq(x, limit) THEN Num(Round2(limit))
                            ELSE IF ~FracLeq(FracScale(-1, limit), x)
                                 THEN Num(Round2(FracScale(-1, limit)))
                            ELSE Num(Round2(x))

-----------------------------------------------------------------------------
(* calc_ratings.py, "# === clean numeric.py ===": the second clean_numeric *)

\* the three characters of the literal in the third replace, by code point (the
\* UTF-8 bytes of the rupee sign read as Windows-1252)
Mojibake == <<"U+00E2", "U+201A", "U+00B9">>

\* s.replace(sub, ''): every occurrence of sub taken out, from the left
RECURSIVE RemoveSub(_, _)
RemoveSub(s, sub) ==
    IF Len(s) < Len(sub) THEN s
    ELSE IF SubSeq(s, 1, Len(sub)) = sub THEN RemoveSub(SubSeq(s, Len(sub) + 1, Len(s)), sub)
    ELSE <<Head(s)>> \o RemoveSub(Tail(s), sub)

\* clean_numeric(value) of lines 201-210: None for None, an int or float as it
\* is, float(...) of text without ",", "%" and the mojibake, None when that
\* raises
clean_numeric_late(value) ==
    IF IsNull(value) THEN Null
    ELSE IF value.kind \in {"num", "int", "nan", "inf", "bool"} THEN value
    ELSE IF value.kind # "text" THEN Null
    ELSE LET cleaned == RemoveSub(Remove(Remove(value.val, ","), "%"), Mojibake)
             num     == ParseFloat(cleaned)
         IN  CASE num.kind = "error" -> Null
               [] num.kind = "nan"   -> NaN
               [] num.kind = "inf"   -> Inf(num.n)
               [] OTHER              -> Num((num.n * 1000) \div num.d)

-----------------------------------------------------------------------------
(* calc_derived_value.py: compute_derived *)

(* Arithmetic as Python evaluates it: between the operators a float is the   *)
(* exact quotient [kind |-> "q", n, d]; an operation Python refuses gives    *)
(* Raise(the exception).                                                     *)

Quot(n, d) == [kind |-> "q", n |-> Frac(n, d).n, d |-> Frac(n, d).d]

\* a value used as an operand: None is no number
Operand(v) == IF IsNum(v) THEN Quot(v.val, 1000) ELSE IF IsRaise(v) THEN v ELSE Raise("TypeError")

PySub(a, b) ==
    IF IsRaise(a) THEN a ELSE IF IsRaise(b) THEN b
    ELSE Quot(a.n * b.d - b.n * a.d, a.d * b.d)

PyDiv(a, b) ==
    IF IsRaise(a) THEN a ELSE IF IsRaise(b) THEN b
    ELSE IF b.n = 0 THEN Raise("ZeroDivisionError")
    ELSE Quot(a.n * b.d, a.d * b.n)

PyTimes(a, k) == IF IsRaise(a) THEN a ELSE Quot(FracScale(k, a).n, FracScale(k, a).d)

\* round(x, 2)
PyRound2(a) == IF IsRaise(a) THEN a ELSE Num(Round2(a))

\* if x: None and 0.0 are false
Truthy(v) == IsNum(v) /\ v.val # 0

\* round((cur - ref) / ref * 100, 2)
PctChange(cur, ref) ==
    PyRound2(PyTimes(PyDiv(PySub(Operand(cur), Operand(ref)), Operand(ref)), 100))

\* round(a / b, 2)
Ratio(a, b) == PyRound2(PyDiv(Operand(a), Operand(b)))

\* round(a / b * 100, 2)
RatioPct(a, b) == PyRound2(PyTimes(PyDiv(Operand(a), Operand(b)), 100))

\* variant: the test (f52w_high - f52w_low) != 0 is missing
position_52w_pct_unguarded(cp, f52w_high, f52w_low) ==
    IF Truthy(cp) /\ Truthy(f52w_high) /\ Truthy(f52w_low)
    THEN PyRound2(PyTimes(PyDiv(PySub(Operand(cp), Operand(f52w_low)),
                                PySub(Operand(f52w_high), Operand(f52w_low))), 100))
    ELSE Null

position_52w_pct(cp, f52w_high, f52w_low) ==
    IF /\ Truthy(cp) /\ Truthy(f52w_high) /\ Truthy(f52w_low)
       /\ f52w_high.val - f52w_low.val # 0
    THEN PyRound2(PyTimes(PyDiv(PySub(Operand(cp), Operand(f52w_low)),
                                PySub(Operand(f52w_high), Operand(f52w_low))), 100))
    ELSE Null

\* variant: a sector benchmark of 20 is supplied
sector_pe_supplied == Num(20000)

\* sector_pe = None  # You need to supply this value externally
sector_pe == Null

RawFields ==
    {"current_price", "previous_close", "price_3m_ago", "price_6m_ago", "price_12m_ago",
     "fifty_two_week_high", "fifty_two_week_low", "market_cap", "total_revenue",
     "enterprise_value", "ebitda", "pe_ratio_trailing", "gross_margin", "operating_margin",
     "net_income", "earnings_per_share", "eps_3m_ago", "eps_6m_ago", "eps_12m_ago",
     "revenue_3m_ago", "revenue_6m_ago", "revenue_12m_ago", "book_value_per_share",
     "eps_growth", "dividend_yield", "beta", "debt_to_equity", "free_cash_flow",
     "operating_cash_flow", "analyst_target_price"}

\* the sanitised columns: clean_numeric(row.get(f)) for every column read
cleaned(row) == [f \in RawFields |-> clean_numeric(Get(row, f), max_value_default)]

\* the dict built from the sanitised columns c
derived_fields(c) ==
    LET cp               == c["current_price"]
        pc               == c["previous_close"]
        total_revenue    == c["total_revenue"]
        pe_ratio_trailing == c["pe_ratio_trailing"]
        eps              == c["earnings_per_share"]
    IN  [price_return_3m_pct |->
                IF Truthy(cp) /\ Truthy(c["price_3m_ago"])
                THEN PctChange(cp, c["price_3m_ago"]) ELSE Null,
              price_return_6m_pct |->
                IF Truthy(cp) /\ Truthy(c["price_6m_ago"])
                THEN PctChange(cp, c["price_6m_ago"]) ELSE Null,
              price_return_12m_pct |->
                IF Truthy(cp) /\ Truthy(c["price_12m_ago"])
                THEN PctChange(cp, c["price_12m_ago"]) ELSE Null,
              position_52w_pct |->
                position_52w_pct(cp, c["fifty_two_week_high"], c["fifty_two_week_low"]),
              ytd_return_pct |->
                IF Truthy(cp) /\ Truthy(pc) THEN PctChange(cp, pc) ELSE Null,
              market_cap_to_revenue |->
                IF Truthy(c["market_cap"]) /\ Truthy(total_revenue)
                THEN Ratio(c["market_cap"], total_revenue) ELSE Null,
              enterprise_value_to_ebitda |->
                IF Truthy(c["enterprise_value"]) /\ Truthy(c["ebitda"])
                THEN Ratio(c["enterprise_value"], c["ebitda"]) ELSE Null,
              pe_discount_vs_sector |->
                IF Truthy(pe_ratio_trailing) /\ Truthy(sector_pe)
                THEN PyRound2(PySub(Operand(pe_ratio_trailing), Operand(sector_pe))) ELSE Null,
              gross_margin_pct |-> c["gross_margin"],
              operating_margin_pct |-> c["operating_margin"],
              net_margin_pct |->
                IF Truthy(c["net_income"]) /\ Truthy(total_revenue)
                THEN RatioPct(c["net_income"], total_revenue) ELSE Null,
              eps_growth_3m_pct |->
                IF Truthy(eps) /\ Truthy(c["eps_3m_ago"])
                THEN PctChange(eps, c["eps_3m_ago"]) ELSE Null,
              eps_growth_6m_pct |->
                IF Truthy(eps) /\ Truthy(c["eps_6m_ago"])
                THEN PctChange(eps, c["eps_6m_ago"]) ELSE Null,
              eps_growth_12m_pct |->
                IF Truthy(eps) /\ Truthy(c["eps_12m_ago"])
                THEN PctChange(eps, c["eps_12m_ago"]) ELSE Null,
              revenue_growth_3m_pct |->
                IF Truthy(total_revenue) /\ Truthy(c["revenue_3m_ago"])
                THEN PctChange(total_revenue, c["revenue_3m_ago"]) ELSE Null,
              revenue_growth_6m_pct |->
                IF Truthy(total_revenue) /\ Truthy(c["revenue_6m_ago"])
                THEN PctChange(total_revenue, c["revenue_6m_ago"]) ELSE Null,
              revenue_growth_12m_pct |->
                IF Truthy(total_revenue) /\ Truthy(c["revenue_12m_ago"])
                THEN PctChange(total_revenue, c["revenue_12m_ago"]) ELSE Null,
              book_to_price_ratio |->
                IF Truthy(c["book_value_per_share"]) /\ Truthy(cp) /\ cp.val # 0
                THEN Ratio(c["book_value_per_share"], cp) ELSE Null,
              peg_ratio |->
                IF Truthy(pe_ratio_trailing) /\ Truthy(c["eps_growth"]) /\ c["eps_growth"].val # 0
                THEN Ratio(pe_ratio_trailing, c["eps_growth"]) ELSE Null,
              dividend_yield_pct |-> c["dividend_yield"],
              beta |-> c["beta"],
              debt_to_equity |-> c["debt_to_equity"],
              free_cash_flow_margin |->
                IF Truthy(c["free_cash_flow"]) /\ Truthy(total_revenue) /\ total_revenue.val # 0
                THEN RatioPct(c["free_cash_flow"], total_revenue) ELSE Null,
              operating_cash_flow_margin |->
                IF Truthy(c["operating_cash_flow"]) /\ Truthy(total_revenue) /\ total_revenue.val # 0
                THEN RatioPct(c["operating_cash_flow"], total_revenue) ELSE Null,
              dividend_payout_ratio |->
                IF Truthy(c["dividend_yield"]) /\ Truthy(eps) /\ eps.val # 0
                THEN Ratio(c["dividend_yield"], eps) ELSE Null,
              upside_potential_pct |->
                IF Truthy(c["analyst_target_price"]) /\ Truthy(cp) /\ cp.val # 0
                THEN PctChange(c["analyst_target_price"], cp) ELSE Null]

\* what leaves the function: an exception raised on the way, or the dict
outcome(c, d) ==
    IF (\E f \in DOMAIN c : IsRaise(c[f])) \/ (\E k \in DOMAIN d : IsRaise(d[k]))
    THEN [raised |-> TRUE, derived |-> EmptyRow]
    ELSE [raised |-> FALSE, derived |-> d]

derive(c) == outcome(c, derived_fields(c))

\* [raised, derived]: raised when an exception leaves the function, else the
\* dict it returns
compute_derived(row) == derive(cleaned(row))

-----------------------------------------------------------------------------
(* Bounds *)

\* fields of a drawn row changed before score_from_row is applied
MaxEdits == 1

\* tickers of a batch
MaxTickers == 3

-----------------------------------------------------------------------------
(* minmax_score on drawn arguments *)

NormValues == {Null} \cup { Num(x) : x \in {-10000, 0, 5000, 16250, 27500, 50000, 60000} }

NormBounds == {Null} \cup { Num(x) : x \in {0, 5000, 50000} }

mm_idle ==
    /\ mm_args = [value |-> Null, min_val |-> Null, max_val |-> Null, invert |-> FALSE]
    /\ mm_pc = "idle"
    /\ mm_out = Frac(0, 1)

sc_idle ==
    /\ sc_row = EmptyRow
    /\ sc_cons = EmptyRow
    /\ sc_pc = "idle"
    /\ sc_out = Null
    /\ sc_edits = 0

rt_idle ==
    /\ cons_master = <<>>
    /\ derived_master = EmptyRow
    /\ rt_pc = "idle"
    /\ rt_i = 0
    /\ ratings_entries = <<>>
    /\ ratings_master = EmptyRow
    /\ upsert_log = <<>>

dv_idle ==
    /\ dv_row = EmptyRow
    /\ dv_pc = "idle"
    /\ dv_out = [raised |-> FALSE, derived |-> EmptyRow]

\* the function has not been applied
NotApplied == [kind |-> "unset", val |-> 0]

cn_idle ==
    /\ cn_args = [value |-> Null, max_value |-> 0]
    /\ cn_pc = "idle"
    /\ cn_out = Null
    /\ cn_late = NotApplied

\* the dates the clock can show, in order
Days == <<"day1", "day2">>

\* a call of a fetch function that has made no attempt yet
NoCall == [tries |-> <<>>, sleeps |-> <<>>, ret |-> Null]

st_idle ==
    /\ st_script = "none"
    /\ st_tickers = <<>>
    /\ st_i = 0
    /\ st_pc = "idle"
    /\ st_attempt = 0
    /\ st_call = NoCall
    /\ st_fetched = <<>>
    /\ st_stage = EmptyRow
    /\ st_upserts = <<>>

rn_idle ==
    /\ rn_script = "none"
    /\ rn_env = [token |-> FALSE, chat_id |-> FALSE]
    /\ rn_pc = "idle"
    /\ rn_k = 0
    /\ rn_error = "none"
    /\ rn_log = <<>>
    /\ rn_notes = <<>>
    /\ rn_status = Null

pl_idle ==
    /\ clock = Days[1]
    /\ today = Days[1]
    /\ pl_pc = "idle"
    /\ pl_run = 0
    /\ pl_i = 0
    /\ pl_first = [derived |-> EmptyRow, ratings |-> EmptyRow]

InitNorm ==
    /\ fp_tie = "even"
    /\ rn_idle
    /\ st_idle
    /\ mm_args \in [value : NormValues, min_val : NormBounds, max_val : NormBounds,
                    invert : BOOLEAN]
    /\ mm_pc = "drawn"
    /\ mm_out = Frac(0, 1)
    /\ sc_idle
    /\ rt_idle
    /\ dv_idle
    /\ cn_idle
    /\ pl_idle

MinmaxApply ==
    /\ mm_pc = "drawn"
    /\ mm_out' = minmax_score(mm_args.value, mm_args.min_val, mm_args.max_val,
                              mm_args.invert)
    /\ mm_pc' = "returned"
    /\ UNCHANGED <<fp_tie, st_vars, rn_vars, pl_vars, cn_vars, dv_vars, mm_args, sc_vars, rt_vars>>

NextNorm == MinmaxApply

SpecNorm == InitNorm /\ [][NextNorm]_vars

-----------------------------------------------------------------------------
(* score_from_row on drawn rows *)

InitScore ==
    /\ fp_tie \in TieModes
    /\ rn_idle
    /\ st_idle
    /\ mm_idle
    /\ \/ \E pct \in Levels : sc_row = LevelRow(pct) /\ sc_cons = LevelCons(pct)
       \/ sc_row = EmptyRow /\ sc_cons = EmptyRow
    /\ sc_pc = "drawn"
    /\ sc_out = Null
    /\ sc_edits = 0
    /\ rt_idle
    /\ dv_idle
    /\ cn_idle
    /\ pl_idle

\* another row of the tables: one column differs
ScoreEditRow ==
    /\ sc_pc = "drawn"
    /\ sc_edits < MaxEdits
    /\ \E f \in ScoreFields :
         \E v \in (SampleValues \cup Nudges(Get(sc_row, f))) \ {Get(sc_row, f)} :
            sc_row' = [g \in DOMAIN sc_row \cup {f} |-> IF g = f THEN v ELSE sc_row[g]]
    /\ sc_edits' = sc_edits + 1
    /\ UNCHANGED <<fp_tie, st_vars, rn_vars, pl_vars, cn_vars, dv_vars, mm_vars, sc_cons, sc_pc, sc_out, rt_vars>>

ScoreEditCons ==
    /\ sc_pc = "drawn"
    /\ sc_edits < MaxEdits
    /\ \E v \in (SampleValues \cup Nudges(Get(sc_cons, "pe_ratio_trailing")))
                    \ {Get(sc_cons, "pe_ratio_trailing")} :
            sc_cons' = [pe_ratio_trailing |-> v]
    /\ sc_edits' = sc_edits + 1
    /\ UNCHANGED <<fp_tie, st_vars, rn_vars, pl_vars, cn_vars, dv_vars, mm_vars, sc_row, sc_pc, sc_out, rt_vars>>

\* text that is no numeral, and a numeral held as text
TextValues == { Text(<<"a", "b", "c">>), Text(<<"1", "2", ".", "5">>) }

\* a row with a column that holds text; such a row is not changed further
ScoreSpoilRow ==
    /\ sc_pc = "drawn"
    /\ sc_edits = 0
    /\ \E f \in ScoreFields, v \in TextValues :
            sc_row' = [g \in DOMAIN sc_row \cup {f} |-> IF g = f THEN v ELSE sc_row[g]]
    /\ sc_pc' = "spoiled"
    /\ UNCHANGED <<fp_tie, st_vars, rn_vars, pl_vars, cn_vars, dv_vars, mm_vars, sc_cons, sc_out, sc_edits, rt_vars>>

ScoreSpoilCons ==
    /\ sc_pc = "drawn"
    /\ sc_edits = 0
    /\ \E v \in TextValues : sc_cons' = [pe_ratio_trailing |-> v]
    /\ sc_pc' = "spoiled"
    /\ UNCHANGED <<fp_tie, st_vars, rn_vars, pl_vars, cn_vars, dv_vars, mm_vars, sc_row, sc_out, sc_edits, rt_vars>>

ScoreApply ==
    /\ sc_pc \in {"drawn", "spoiled"}
    /\ sc_out' = score_from_row(sc_row, sc_cons)
    /\ sc_pc' = IF Raised(sc_out') THEN "raised" ELSE "returned"
    /\ UNCHANGED <<fp_tie, st_vars, rn_vars, pl_vars, cn_vars, dv_vars, mm_vars, sc_row, sc_cons, sc_edits, rt_vars>>

NextScore == ScoreEditRow \/ ScoreEditCons \/ ScoreSpoilRow \/ ScoreSpoilCons \/ ScoreApply

SpecScore == InitScore /\ [][NextScore]_vars

-----------------------------------------------------------------------------
(* compute_derived on drawn snapshot rows *)

\* snapshot columns by the part they play in the formulas
CurrentFields ==
    {"current_price", "total_revenue", "earnings_per_share", "market_cap", "enterprise_value",
     "pe_ratio_trailing", "gross_margin", "operating_margin", "dividend_yield", "beta",
     "debt_to_equity"}

ReferenceFields ==
    {"previous_close", "price_3m_ago", "price_6m_ago", "price_12m_ago", "fifty_two_week_low",
     "ebitda", "eps_3m_ago", "eps_6m_ago", "eps_12m_ago", "revenue_3m_ago", "revenue_6m_ago",
     "revenue_12m_ago", "eps_growth"}

BaseValues == {Null} \cup { Num(x) : x \in {0, 50000, 100000, 110000} }

\* a row holding a in its current columns, b in its reference columns, c elsewhere
BaseRow(a, b, c) ==
    [f \in RawFields |-> IF f \in CurrentFields THEN a ELSE IF f \in ReferenceFields THEN b ELSE c]

\* the rows in which one column is replaced by an odd value
FairRows ==
    { BaseRow(Num(50000), Num(100000), Num(100000)),
      BaseRow(Num(100000), Num(50000), Num(100000)) }

OddValues ==
    { NaN, Inf(1), Inf(-1), Num(-20000), Num(2675), Num(500),
      Text(<<>>), Text(<<" ">>), Text(<<"a", "b", "c">>),
      Text(<<"1", ",", "0", "0", "0">>), Text(<<"1", "2", ".", "5", "%">>),
      Text(<<"$", "1", ",", "2", "3", "4", ".", "5", "0">>) }

InitDerived ==
    /\ rn_idle
    /\ st_idle
    /\ mm_idle
    /\ sc_idle
    /\ rt_idle
    /\ cn_idle
    /\ pl_idle
    /\ \/ /\ fp_tie \in TieModes
          /\ \E a, b, c \in BaseValues : dv_row = BaseRow(a, b, c)
       \/ /\ fp_tie = "even"
          /\ \E row \in FairRows, f \in RawFields, v \in OddValues :
                dv_row = [row EXCEPT ![f] = v]
    /\ dv_pc = "drawn"
    /\ dv_out = [raised |-> FALSE, derived |-> EmptyRow]

DerivedApply ==
    /\ dv_pc = "drawn"
    /\ dv_out' = compute_derived(dv_row)
    /\ dv_pc' = IF dv_out'.raised THEN "raised" ELSE "returned"
    /\ UNCHANGED <<fp_tie, st_vars, rn_vars, pl_vars, cn_vars, mm_vars, sc_vars, rt_vars, dv_row>>

NextDerived == DerivedApply

SpecDerived == InitDerived /\ [][NextDerived]_vars

-----------------------------------------------------------------------------
(* clean_numeric on drawn arguments *)

CleanNumbers ==
    { Num(x) : x \in {0, 10, 2675, 12345, -20000, 123450, 999990, 1000000, -1000000,
                      9999990, 10000000, -10000000} }

CleanTexts ==
    { Text(<<>>), Text(<<" ">>), Text(<<" ", " ">>), Text(<<"a", "b", "c">>),
      Text(<<"1", ",", "0", "0", "0">>), Text(<<"1", "2", ".", "5", "%">>),
      Text(<<"$", "1", ",", "2", "3", "4", ".", "5", "0">>),
      Text(<<"$", "5">>), Text(<<"1", "2", ",", "0", "0", "0", ".", "5">>),
      Text(<<" ", "4", "2", " ">>), Text(<<"-", "7", ".", "5">>), Text(<<"+", "3">>),
      Text(<<"-", "1", "2", ",", "0", "0", "0">>), Text(<<"1", ".", "2", ".", "3">>),
      Text(<<".">>), Text(<<"%">>), Text(<<"9", "9", ".", "9", "9", "5", "%">>),
      Text(<<"n", "a", "n">>), Text(<<"N", "a", "N">>), Text(<<"i", "n", "f">>),
      Text(<<"-", "i", "n", "f">>), Text(<<"1", "2", "a">>),
      Text(Mojibake \o <<"5">>) }

CleanInputs ==
    {Null, NaN, Inf(1), Inf(-1), Bool(TRUE), Bool(FALSE), EmptyList}
        \cup CleanNumbers \cup CleanTexts

InitClean ==
    /\ fp_tie \in TieModes
    /\ rn_idle
    /\ st_idle
    /\ mm_idle
    /\ sc_idle
    /\ rt_idle
    /\ dv_idle
    /\ pl_idle
    /\ cn_args \in [value : CleanInputs, max_value : {max_value_default, max_value_screenr}]
    /\ cn_pc = "drawn"
    /\ cn_out = Null
    /\ cn_late = NotApplied

CleanApply ==
    /\ cn_pc = "drawn"
    /\ cn_out' = clean_numeric(cn_args.value, cn_args.max_value)
    /\ cn_pc' = IF IsRaise(cn_out') THEN "raised" ELSE "returned"
    /\ UNCHANGED <<fp_tie, st_vars, rn_vars, pl_vars, mm_vars, sc_vars, rt_vars, dv_vars, cn_args,
                   cn_late>>

\* the definition that the name clean_numeric is bound to once calc_ratings.py
\* is loaded, applied to the same value
CleanApplyLate ==
    /\ cn_pc \in {"returned", "raised"}
    /\ cn_late = NotApplied
    /\ cn_late' = clean_numeric_late(cn_args.value)
    /\ UNCHANGED <<fp_tie, st_vars, rn_vars, pl_vars, mm_vars, sc_vars, rt_vars, dv_vars, cn_args,
                   cn_pc, cn_out>>

NextClean == CleanApply \/ CleanApplyLate

SpecClean == InitClean /\ [][NextClean]_vars

-----------------------------------------------------------------------------
(* Properties of minmax_score and score_from_row *)

\* the clamped quotient (v - lo) / (hi - lo), written out with integers:
\* a pair <<numerator, denominator>> with 0 <= numerator <= denominator
ClampedQuotient(v, lo, hi) ==
    LET num == IF hi > lo THEN v - lo ELSE lo - v
        den == IF hi > lo THEN hi - lo ELSE lo - hi
    IN  IF num <= 0 THEN <<0, den>> ELSE IF num >= den THEN <<den, den>> ELSE <<num, den>>

\* C8: minmax_score(v, lo, hi, invert) is clamp((v - lo) / (hi - lo), 0, 1), or one
\* minus it when invert is set, and 0 (also when invert is set) when v, lo or hi
\* is null or hi = lo; so over a band lo < hi an inverted factor is 0 for
\* v >= hi and 1 for v <= lo, and norm(60, 5, 50, invert) = 0.
C8_MinmaxIsClampedQuotient ==
    mm_pc = "returned" =>
        LET a == mm_args
        IN  IF IsNull(a.value) \/ IsNull(a.min_val) \/ IsNull(a.max_val)
               \/ a.max_val.val = a.min_val.val
            THEN mm_out.n = 0
            ELSE LET c == ClampedQuotient(a.value.val, a.min_val.val, a.max_val.val)
                 IN  /\ mm_out.d > 0
                     /\ mm_out.n * c[2]
                          = mm_out.d * (IF a.invert THEN c[2] - c[1] ELSE c[1])
                     /\ (a.invert /\ a.min_val.val < a.max_val.val) =>
                          /\ a.value.val >= a.max_val.val => mm_out.n = 0
                          /\ a.value.val <= a.min_val.val => mm_out.n = mm_out.d

C8_Witness ==
    /\ mm_pc = "returned"
    /\ mm_args = [value |-> Num(60000), min_val |-> Num(5000), max_val |-> Num(50000),
                  invert |-> TRUE]
    /\ mm_out.n = 0

\* C4: grade and action are decided by the composite score alone:
\* >= 80 is (A, BUY), 65 <= cs < 80 is (B, ACCUMULATE), 50 <= cs < 65 is (C, HOLD),
\* anything lower is (D, AVOID).
C4_BandingByComposite ==
    sc_pc = "returned" =>
        LET cs == sc_out.composite_score.val
            pair == <<sc_out.rating, sc_out.action>>
        IN  /\ cs >= 80000 => pair = <<"A", "BUY">>
            /\ (65000 <= cs /\ cs < 80000) => pair = <<"B", "ACCUMULATE">>
            /\ (50000 <= cs /\ cs < 65000) => pair = <<"C", "HOLD">>
            /\ cs < 50000 => pair = <<"D", "AVOID">>
            /\ pair \in {<<"A", "BUY">>, <<"B", "ACCUMULATE">>, <<"C", "HOLD">>,
                         <<"D", "AVOID">>}

C4_Witness ==
    /\ sc_pc = "returned"
    /\ sc_out.composite_score = Num(65000)
    /\ sc_out.rating = "B"
    /\ sc_out.action = "ACCUMULATE"

\* C6: the composite is 0.2 momentum + 0.2 quality + 0.2 valuation + 0.2 growth +
\* 0.1 financial stability + 0.1 cash flow of the category scores of the same
\* result, rounded to 2 decimals: a multiple of 0.01 within 0.005 of that sum.
C6_CompositeIsWeightedSum ==
    sc_pc = "returned" =>
        LET sum == 2 * sc_out.momentum_score.val + 2 * sc_out.quality_score.val
                   + 2 * sc_out.valuation_score.val + 2 * sc_out.growth_score.val
                   + sc_out.financial_stability_score.val + sc_out.cash_flow_score.val
            cs  == sc_out.composite_score
        IN  /\ IsNum(cs)
            /\ cs.val % 10 = 0
            /\ Abs(10 * cs.val - sum) <= 50

\* a result whose weighted sum has a third decimal, so that the rounding acts
C6_Witness ==
    /\ sc_pc = "returned"
    /\ sc_out.growth_score # sc_out.financial_stability_score
    /\ (2 * sc_out.momentum_score.val + 2 * sc_out.quality_score.val
        + 2 * sc_out.valuation_score.val + 2 * sc_out.growth_score.val
        + sc_out.financial_stability_score.val + sc_out.cash_flow_score.val) % 100 # 0

ScoreNames ==
    {"momentum_score", "quality_score", "valuation_score", "growth_score",
     "financial_stability_score", "cash_flow_score"}

\* C7: for rows whose fields are numbers or null, the six category scores and the
\* composite score lie in [0, 100].
C7_ScoresInRange ==
    sc_pc = "returned" =>
        \A k \in ScoreNames \cup {"composite_score"} :
            /\ IsNum(sc_out[k])
            /\ 0 <= sc_out[k].val
            /\ sc_out[k].val <= 100000

\* a row with a value beyond its band whose scores are at the top of the range
C7_Witness ==
    /\ sc_pc = "returned"
    /\ \E f \in DOMAIN sc_row : sc_row[f] = Num(120000)
    /\ \A k \in ScoreNames \cup {"composite_score"} : sc_out[k].val = 100000

\* the normalised sub-factor of the specification: clamp((v - lo) / (hi - lo), 0, 1),
\* one minus it when inverted, 0 for a null value
SubFactor(v, lo, hi, inverted) ==
    IF IsNull(v) THEN Frac(0, 1)
    ELSE LET c == ClampedQuotient(v.val, lo, hi)
         IN  Frac(IF inverted THEN c[2] - c[1] ELSE c[1], c[2])

\* 100 * (w1 * f1 + w2 * f2 + w3 * f3), weights in tenths
Weighted100(w1, f1, w2, f2, w3, f3) ==
    FracScale(100, FracAdd(FracMul(Frac(w1, 10), f1),
                           FracAdd(FracMul(Frac(w2, 10), f2), FracMul(Frac(w3, 10), f3))))

\* the six category scores as the specification states them, before any rounding;
\* P/E comes from the raw row, every other input from the derived row
CategoryOfSpec(k) ==
    CASE k = "momentum_score" ->
        Weighted100(5, SubFactor(Get(sc_row, "price_return_12m_pct"), -50000, 100000, FALSE),
                    3, SubFactor(Get(sc_row, "position_52w_pct"), 0, 100000, FALSE),
                    2, SubFactor(Get(sc_row, "price_return_3m_pct"), -50000, 100000, FALSE))
      [] k = "quality_score" ->
        Weighted100(5, SubFactor(Get(sc_row, "gross_margin_pct"), 0, 70000, FALSE),
                    3, SubFactor(Get(sc_row, "operating_margin_pct"), 0, 50000, FALSE),
                    2, SubFactor(Get(sc_row, "net_margin_pct"), 0, 40000, FALSE))
      [] k = "valuation_score" ->
        Weighted100(4, SubFactor(Get(sc_cons, "pe_ratio_trailing"), 5000, 50000, TRUE),
                    4, SubFactor(Get(sc_row, "peg_ratio"), 0, 3000, TRUE),
                    2, SubFactor(Get(sc_row, "dividend_yield_pct"), 0, 10000, FALSE))
      [] k = "growth_score" ->
        Weighted100(6, SubFactor(Get(sc_row, "eps_growth_12m_pct"), -50000, 50000, FALSE),
                    4, SubFactor(Get(sc_row, "revenue_growth_12m_pct"), -50000, 50000, FALSE),
                    0, Frac(0, 1))
      [] k = "financial_stability_score" ->
        Weighted100(6, SubFactor(Get(sc_row, "debt_to_equity"), 0, 2000, TRUE),
                    4, SubFactor(Get(sc_row, "beta"), 0, 2000, TRUE),
                    0, Frac(0, 1))
      [] k = "cash_flow_score" ->
        Weighted100(5, SubFactor(Get(sc_row, "free_cash_flow_margin"), -50000, 50000, FALSE),
                    5, SubFactor(Get(sc_row, "operating_cash_flow_margin"), -50000, 50000, FALSE),
                    0, Frac(0, 1))

\* C9 as stated: each category score equals 100 times the weighted sum of its
\* normalised sub-factors (fixed bands and weights, P/E from the raw row).
C9_CategoryEqualsWeightedSum ==
    sc_pc = "returned" =>
        \A k \in ScoreNames : AsFrac(sc_out[k]) = CategoryOfSpec(k)

\* score is a multiple of 0.01 within 0.005 of the fraction exact
IsRounded2(score, exact) ==
    /\ score.val % 10 = 0
    /\ Abs(score.val * exact.d - 1000 * exact.n) <= 5 * exact.d

\* C9 amended: each category score is 100 times the weighted sum of its normalised
\* sub-factors (fixed bands and weights, P/E from the raw row) rounded to 2
\* decimals: a multiple of 0.01 within 0.005 of the weighted sum.
C9_CategoryIsRoundedWeightedSum ==
    sc_pc = "returned" =>
        \A k \in ScoreNames : IsRounded2(sc_out[k], CategoryOfSpec(k))

\* a result for a raw row with a P/E and a derived row without one, in which the
\* valuation score is the rounding of a weighted sum that has more decimals
C9_Witness ==
    /\ sc_pc = "returned"
    /\ IsNum(Get(sc_cons, "pe_ratio_trailing"))
    /\ AsFrac(sc_out.valuation_score) # CategoryOfSpec("valuation_score")
    /\ sc_out.valuation_score.val > 0

-----------------------------------------------------------------------------
(* calc_ratings.py: main *)

\* the row built for rec in the first loop
ratings_row(rec, derived, scores) ==
    [ticker                    |-> rec.ticker,
     rating_date               |-> today,    \* datetime.date.today().isoformat()
     momentum_score            |-> scores.momentum_score,
     quality_score             |-> scores.quality_score,
     valuation_score           |-> scores.valuation_score,
     growth_score              |-> scores.growth_score,
     financial_stability_score |-> scores.financial_stability_score,
     cash_flow_score           |-> scores.cash_flow_score,
     composite_score           |-> scores.composite_score,
     rating                    |-> scores.rating,
     action                    |-> scores.action,
     rank                      |-> Null,
     ytd_return_pct            |-> Get(derived, "ytd_return_pct"),
     upside_potential_pct      |-> Get(derived, "upside_potential_pct"),
     beta                      |-> Get(derived, "beta"),
     debt_to_equity            |-> Get(derived, "debt_to_equity"),
     dividend_yield_pct        |-> Get(derived, "dividend_yield_pct"),
     target_price_6m           |-> Get(rec, "analyst_target_price"),
     analyst_rating            |-> Get(rec, "analyst_rating")]

\* the sort key: x["composite_score"] if x["composite_score"] is not None else -999
SortKey(x) == IF IsNull(x.composite_score) THEN -999000 ELSE x.composite_score.val

Front(seq) == SubSeq(seq, 1, Len(seq) - 1)

Last(seq) == seq[Len(seq)]

\* variant: x is placed ahead of the entries of equal key (the sort is not stable)
InsertDesc_ahead_of_equal(sorted, x) ==
    LET keep == { k \in 0..Len(sorted) : \A j \in 1..k : SortKey(sorted[j]) > SortKey(x) }
        k    == CHOOSE k \in keep : \A m \in keep : m <= k
    IN  SubSeq(sorted, 1, k) \o <<x>> \o SubSeq(sorted, k + 1, Len(sorted))

\* x placed behind the entries of the descending list whose key is not smaller
InsertDesc(sorted, x) ==
    LET keep == { k \in 0..Len(sorted) : \A j \in 1..k : SortKey(sorted[j]) >= SortKey(x) }
        k    == CHOOSE k \in keep : \A m \in keep : m <= k
    IN  SubSeq(sorted, 1, k) \o <<x>> \o SubSeq(sorted, k + 1, Len(sorted))

\* variant: the list comes out ascending (reverse=True is missing)
RECURSIVE sorted_ascending(_)
sorted_ascending(entries) ==
    IF entries = <<>> THEN <<>>
    ELSE LET rest == sorted_ascending(Front(entries))
             x    == Last(entries)
             keep == { k \in 0..Len(rest) : \A j \in 1..k : SortKey(rest[j]) <= SortKey(x) }
             k    == CHOOSE k \in keep : \A m \in keep : m <= k
         IN  SubSeq(rest, 1, k) \o <<x>> \o SubSeq(rest, k + 1, Len(rest))

\* sorted(ratings_entries, key=..., reverse=True): descending by key, entries of
\* equal key in their order in the list (the sort is stable)
RECURSIVE sorted_desc(_)
sorted_desc(entries) ==
    IF entries = <<>> THEN <<>>
    ELSE InsertDesc(sorted_desc(Front(entries)), Last(entries))

\* variant: positions are counted from 0 (enumerate without the start)
rank_of_zero_based(idx) == PyInt(idx - 1)

\* the rank of the entry at position idx: enumerate(ratings_entries, 1)
rank_of(idx) == PyInt(idx)

\* a row upserted into a table keyed by ticker
Upsert(table, row) ==
    [t \in DOMAIN table \cup {row.ticker} |-> IF t = row.ticker THEN row ELSE table[t]]

\* variant: the row is ranked by its position in the batch and written at once
RatingsScoreStep_eager ==
    /\ rt_pc = "score"
    /\ rt_i <= Len(cons_master)
    /\ LET rec     == cons_master[rt_i]
           derived == GetOr(derived_master, rec.ticker, EmptyRow)
           scores  == score_from_row(derived, rec)
           row     == [ratings_row(rec, derived, scores) EXCEPT !.rank = rank_of(rt_i)]
       IN  /\ ratings_entries' = Append(ratings_entries, row)
           /\ ratings_master' = Upsert(ratings_master, row)
           /\ upsert_log' = Append(upsert_log, row)
    /\ rt_i' = rt_i + 1
    /\ UNCHANGED <<fp_tie, st_vars, rn_vars, pl_vars, cn_vars, dv_vars, mm_vars, sc_vars, cons_master, derived_master, rt_pc>>

\* one pass of "for rec in cons_master"
RatingsScoreStep ==
    /\ rt_pc = "score"
    /\ rt_i <= Len(cons_master)
    /\ LET rec     == cons_master[rt_i]
           derived == GetOr(derived_master, rec.ticker, EmptyRow)
           scores  == score_from_row(derived, rec)
       IN  ratings_entries' = Append(ratings_entries, ratings_row(rec, derived, scores))
    /\ rt_i' = rt_i + 1
    /\ UNCHANGED <<fp_tie, st_vars, rn_vars, pl_vars, cn_vars, dv_vars, mm_vars, sc_vars, cons_master, derived_master, rt_pc,
                   ratings_master, upsert_log>>

\* the first loop is over: ratings_entries = sorted(...)
RatingsSort ==
    /\ rt_pc = "score"
    /\ rt_i > Len(cons_master)
    /\ ratings_entries' = sorted_desc(ratings_entries)
    /\ rt_pc' = "rank"
    /\ rt_i' = 1
    /\ UNCHANGED <<fp_tie, st_vars, rn_vars, pl_vars, cn_vars, dv_vars, mm_vars, sc_vars, cons_master, derived_master, ratings_master,
                   upsert_log>>

\* one pass of "for idx, row in enumerate(ratings_entries, 1)"
RatingsRankStep ==
    /\ rt_pc = "rank"
    /\ rt_i <= Len(ratings_entries)
    /\ LET row == [ratings_entries[rt_i] EXCEPT !.rank = rank_of(rt_i)]
       IN  /\ ratings_entries' = [ratings_entries EXCEPT ![rt_i] = row]
           /\ ratings_master' = Upsert(ratings_master, row)
           /\ upsert_log' = Append(upsert_log, row)
    /\ rt_i' = rt_i + 1
    /\ UNCHANGED <<fp_tie, st_vars, rn_vars, pl_vars, cn_vars, dv_vars, mm_vars, sc_vars, cons_master, derived_master, rt_pc>>

\* the second loop is over: main returns
RatingsDone ==
    /\ rt_pc = "rank"
    /\ rt_i > Len(ratings_entries)
    /\ rt_pc' = "done"
    /\ UNCHANGED <<fp_tie, st_vars, rn_vars, pl_vars, cn_vars, dv_vars, mm_vars, sc_vars, cons_master, derived_master, rt_i,
                   ratings_entries, ratings_master, upsert_log>>

Tickers == <<"T1", "T2", "T3", "T4", "T5">>

\* what the two tables hold for one ticker: its derived row, or NoRow when
\* derived_master has none, and its trailing P/E
NoRow == Null

TickerData ==
    { [derived |-> LevelRow(pct), pe |-> LevelCons(pct).pe_ratio_trailing] : pct \in {60, 80, 85} }
    \cup { [derived |-> NoRow, pe |-> Null],
           [derived |-> NoRow, pe |-> Num(16250)],
           [derived |-> [LevelRow(80) EXCEPT !["dividend_yield_pct"] = Num(7980)],
            pe |-> LevelCons(80).pe_ratio_trailing] }

Init ==
    /\ fp_tie \in TieModes
    /\ rn_idle
    /\ st_idle
    /\ mm_idle
    /\ sc_idle
    /\ \E n \in 0..MaxTickers :
         \E data \in [1..n -> TickerData] :
            /\ cons_master = [i \in 1..n |->
                                [ticker |-> Tickers[i],
                                 pe_ratio_trailing |-> data[i].pe,
                                 analyst_target_price |-> Null,
                                 analyst_rating |-> Null]]
            /\ derived_master =
                 [t \in { Tickers[i] : i \in { j \in 1..n : data[j].derived # NoRow } } |->
                    data[CHOOSE i \in 1..n : Tickers[i] = t].derived]
    /\ rt_pc = "score"
    /\ rt_i = 1
    /\ ratings_entries = <<>>
    /\ ratings_master = EmptyRow
    /\ upsert_log = <<>>
    /\ dv_idle
    /\ cn_idle
    /\ pl_idle

Next == RatingsScoreStep \/ RatingsSort \/ RatingsRankStep \/ RatingsDone

Spec == Init /\ [][Next]_vars

-----------------------------------------------------------------------------
(* run_full_pipeline.py: "Derived values calculation" and "Ratings calculation", *)
(* run twice over the same rows of consolidated_master                           *)

\* the row calc_derived_value.main upserts for a fetched row
derived_row(row, derived) ==
    [k \in {"ticker", "snapshot_date"} \cup DOMAIN derived |->
        IF k = "ticker" THEN row.ticker
        ELSE IF k = "snapshot_date" THEN today
        ELSE derived[k]]

\* the date changes while the pipeline is under way or between its runs
Midnight ==
    /\ pl_pc \in {"start", "derive", "ratings"}
    /\ clock = Days[1]
    /\ clock' = Days[2]
    /\ UNCHANGED <<fp_tie, st_vars, rn_vars, cn_vars, dv_vars, mm_vars, sc_vars, rt_vars, today, pl_pc, pl_run,
                   pl_i, pl_first>>

\* calc_derived_value.main starts: rows = fetch_consolidated_master(), today = ...
PipelineDeriveStart ==
    /\ pl_pc = "start"
    /\ today' = clock
    /\ pl_i' = 1
    /\ pl_pc' = "derive"
    /\ UNCHANGED <<fp_tie, st_vars, rn_vars, cn_vars, dv_vars, mm_vars, sc_vars, rt_vars, clock, pl_run, pl_first>>

\* one pass of "for row in rows"; an exception ends the step and the pipeline
PipelineDeriveStep ==
    /\ pl_pc = "derive"
    /\ pl_i <= Len(cons_master)
    /\ LET row == cons_master[pl_i]
           out == compute_derived(row)
       IN  IF out.raised
           THEN /\ pl_pc' = "failed"
                /\ UNCHANGED <<derived_master, pl_i>>
           ELSE /\ derived_master' = Upsert(derived_master, derived_row(row, out.derived))
                /\ pl_i' = pl_i + 1
                /\ pl_pc' = pl_pc
    /\ UNCHANGED <<fp_tie, st_vars, rn_vars, cn_vars, dv_vars, mm_vars, sc_vars, cons_master, rt_pc, rt_i,
                   ratings_entries, ratings_master, upsert_log, clock, today, pl_run, pl_first>>

\* variant: ratings_entries is not emptied when calc_ratings.main starts
PipelineRatingsStart_keeps_entries ==
    /\ pl_pc = "derive"
    /\ pl_i > Len(cons_master)
    /\ today' = clock
    /\ rt_pc' = "score"
    /\ rt_i' = 1
    /\ pl_pc' = "ratings"
    /\ UNCHANGED <<fp_tie, st_vars, rn_vars, cn_vars, dv_vars, mm_vars, sc_vars, cons_master, derived_master,
                   ratings_entries, ratings_master, upsert_log, clock, pl_run, pl_i, pl_first>>

\* the derive step is over and calc_ratings.main starts: today = ..., the two
\* fetches, ratings_entries = []
PipelineRatingsStart ==
    /\ pl_pc = "derive"
    /\ pl_i > Len(cons_master)
    /\ today' = clock
    /\ ratings_entries' = <<>>
    /\ rt_pc' = "score"
    /\ rt_i' = 1
    /\ pl_pc' = "ratings"
    /\ UNCHANGED <<fp_tie, st_vars, rn_vars, cn_vars, dv_vars, mm_vars, sc_vars, cons_master, derived_master,
                   ratings_master, upsert_log, clock, pl_run, pl_i, pl_first>>

\* the first run is over; the tables are noted and the pipeline is run again
PipelineRerun ==
    /\ pl_pc = "ratings"
    /\ rt_pc = "done"
    /\ pl_run = 1
    /\ pl_first' = [derived |-> derived_master, ratings |-> ratings_master]
    /\ pl_run' = 2
    /\ pl_pc' = "start"
    /\ UNCHANGED <<fp_tie, st_vars, rn_vars, cn_vars, dv_vars, mm_vars, sc_vars, rt_vars, clock, today, pl_i>>

\* the second run is over
PipelineEnd ==
    /\ pl_pc = "ratings"
    /\ rt_pc = "done"
    /\ pl_run = 2
    /\ pl_pc' = "done"
    /\ UNCHANGED <<fp_tie, st_vars, rn_vars, cn_vars, dv_vars, mm_vars, sc_vars, rt_vars, clock, today, pl_run,
                   pl_i, pl_first>>

\* snapshot rows: prices up by a tenth, prices halved, and a ticker without data
PipelineBases ==
    { BaseRow(Num(110000), Num(100000), Num(100000)),
      BaseRow(Num(50000), Num(100000), Num(100000)),
      BaseRow(Null, Null, Null) }

\* the consolidated_master row of ticker t
PipelineRow(t, base) ==
    [f \in RawFields \cup {"ticker", "analyst_rating"} |->
        IF f = "ticker" THEN t ELSE IF f = "analyst_rating" THEN Null ELSE base[f]]

InitPipeline ==
    /\ fp_tie \in TieModes
    /\ rn_idle
    /\ st_idle
    /\ mm_idle
    /\ sc_idle
    /\ dv_idle
    /\ cn_idle
    /\ \E n \in 0..MaxTickers :
         \E bases \in [1..n -> PipelineBases] :
            cons_master = [i \in 1..n |-> PipelineRow(Tickers[i], bases[i])]
    /\ derived_master = EmptyRow
    /\ rt_pc = "idle"
    /\ rt_i = 0
    /\ ratings_entries = <<>>
    /\ ratings_master = EmptyRow
    /\ upsert_log = <<>>
    /\ clock = Days[1]
    /\ today = Days[1]
    /\ pl_pc = "start"
    /\ pl_run = 1
    /\ pl_i = 0
    /\ pl_first = [derived |-> EmptyRow, ratings |-> EmptyRow]

NextPipeline ==
    \/ Midnight
    \/ PipelineDeriveStart
    \/ PipelineDeriveStep
    \/ PipelineRatingsStart
    \/ RatingsScoreStep
    \/ RatingsSort
    \/ RatingsRankStep
    \/ RatingsDone
    \/ PipelineRerun
    \/ PipelineEnd

SpecPipeline == InitPipeline /\ [][NextPipeline]_vars

-----------------------------------------------------------------------------
(* calc_ratings.main run twice, the rows fetched in another order the second time *)

\* the rows of a list in the order perm
Reordered(rows, perm) == [i \in 1..Len(rows) |-> rows[perm[i]]]

\* the first run is over; the tables are noted and main runs again, with
\* fetch_consolidated_master (a select without an order) returning the same rows
\* in some order
OrderRerun ==
    /\ pl_pc = "ratings"
    /\ rt_pc = "done"
    /\ pl_run = 1
    /\ \E perm \in Permutations(1..Len(cons_master)) :
          cons_master' = Reordered(cons_master, perm)
    /\ pl_first' = [derived |-> derived_master, ratings |-> ratings_master]
    /\ pl_run' = 2
    /\ ratings_entries' = <<>>
    /\ rt_pc' = "score"
    /\ rt_i' = 1
    /\ UNCHANGED <<fp_tie, st_vars, rn_vars, cn_vars, dv_vars, mm_vars, sc_vars, derived_master, ratings_master,
                   upsert_log, clock, today, pl_pc, pl_i>>

InitOrder ==
    /\ fp_tie = "even"
    /\ rn_idle
    /\ st_idle
    /\ mm_idle
    /\ sc_idle
    /\ dv_idle
    /\ cn_idle
    /\ \E n \in 0..MaxTickers :
         \E data \in [1..n -> TickerData] :
            /\ cons_master = [i \in 1..n |->
                                [ticker |-> Tickers[i],
                                 pe_ratio_trailing |-> data[i].pe,
                                 analyst_target_price |-> Null,
                                 analyst_rating |-> Null]]
            /\ derived_master =
                 [t \in { Tickers[i] : i \in { j \in 1..n : data[j].derived # NoRow } } |->
                    data[CHOOSE i \in 1..n : Tickers[i] = t].derived]
    /\ rt_pc = "score"
    /\ rt_i = 1
    /\ ratings_entries = <<>>
    /\ ratings_master = EmptyRow
    /\ upsert_log = <<>>
    /\ clock = Days[1]
    /\ today = Days[1]
    /\ pl_pc = "ratings"
    /\ pl_run = 1
    /\ pl_i = 0
    /\ pl_first = [derived |-> EmptyRow, ratings |-> EmptyRow]

NextOrder ==
    \/ RatingsScoreStep
    \/ RatingsSort
    \/ RatingsRankStep
    \/ RatingsDone
    \/ OrderRerun

SpecOrder == InitOrder /\ [][NextOrder]_vars

-----------------------------------------------------------------------------
(* run_full_pipeline.py and orchestrator.py *)

\* the scripts of PIPELINE_STEPS of run_full_pipeline.py, in order
PIPELINE_STEPS_full ==
    <<"yfin_staging.py", "screenr_stage.py", "yfin_stage_to_mstr.py",
      "screenr_stage_to_mstr.py", "calc_derived_value.py", "calc_ratings.py">>

\* the scripts of PIPELINE_STEPS of orchestrator.py, in order
PIPELINE_STEPS_orchestrator == PIPELINE_STEPS_full \o <<"ingest_supabase.py">>

PIPELINE_STEPS ==
    IF rn_script = "orchestrator" THEN PIPELINE_STEPS_orchestrator ELSE PIPELINE_STEPS_full

\* exit codes of a child process
ExitCodes == {0, 1, 2}

\* what becomes of the request to the Telegram API: the status code of the
\* response, or an exception of requests.post
Responses == {"200", "500", "exception"}

\* variant: an exception of requests.post leaves notify
notify_unguarded(env, response) ==
    IF ~env.token \/ ~env.chat_id
    THEN [posted |-> FALSE, raised |-> FALSE]
    ELSE [posted |-> TRUE, raised |-> response = "exception"]

\* notify(msg): whether the message was posted and whether an exception leaves
\* the function
notify(env, response) ==
    IF ~env.token \/ ~env.chat_id
    THEN [posted |-> FALSE, raised |-> FALSE]
    ELSE [posted |-> TRUE, raised |-> FALSE]

\* a script found missing, a child process started or ended (code is -1 but
\* for an end)
Event(ev, script, code) == [ev |-> ev, script |-> script, code |-> code]

\* a call of notify with the summary or with the failure message
Note(msg, posted) == [msg |-> msg, posted |-> posted]

\* run_step up to the start of the child: the script is missing and run_step
\* raises FileNotFoundError, or subprocess.run starts it
RunStepStart ==
    /\ rn_pc = "loop"
    /\ rn_k <= Len(PIPELINE_STEPS)
    /\ \E exists \in BOOLEAN :
          IF exists
          THEN /\ rn_log' = Append(rn_log, Event("start", PIPELINE_STEPS[rn_k], -1))
               /\ rn_pc' = "child"
               /\ rn_error' = rn_error
          ELSE /\ rn_log' = Append(rn_log, Event("missing", PIPELINE_STEPS[rn_k], -1))
               /\ rn_error' = "FileNotFoundError"
               /\ rn_pc' = "except"
    /\ UNCHANGED <<fp_tie, st_vars, cn_vars, dv_vars, mm_vars, sc_vars, rt_vars, pl_vars,
                   rn_script, rn_env, rn_k, rn_notes, rn_status>>

\* variant: the returncode is not looked at
RunStepEnd_ignores_code ==
    /\ rn_pc = "child"
    /\ \E code \in ExitCodes :
          rn_log' = Append(rn_log, Event("exit", PIPELINE_STEPS[rn_k], code))
    /\ rn_pc' = "loop"
    /\ rn_k' = rn_k + 1
    /\ UNCHANGED <<fp_tie, st_vars, cn_vars, dv_vars, mm_vars, sc_vars, rt_vars, pl_vars,
                   rn_script, rn_env, rn_error, rn_notes, rn_status>>

\* the child exits and run_step goes on: RuntimeError for a returncode other
\* than 0, else the step is over and the loop takes the next one
RunStepEnd ==
    /\ rn_pc = "child"
    /\ \E code \in ExitCodes :
          /\ rn_log' = Append(rn_log, Event("exit", PIPELINE_STEPS[rn_k], code))
          /\ IF code # 0
             THEN /\ rn_error' = "RuntimeError"
                  /\ rn_pc' = "except"
                  /\ rn_k' = rn_k
             ELSE /\ rn_error' = rn_error
                  /\ rn_pc' = "loop"
                  /\ rn_k' = rn_k + 1
    /\ UNCHANGED <<fp_tie, st_vars, cn_vars, dv_vars, mm_vars, sc_vars, rt_vars, pl_vars,
                   rn_script, rn_env, rn_notes, rn_status>>

\* the loop is over: the summary is printed and, in orchestrator.py, passed to
\* notify; main returns and the script ends with status 0
RunnerFinish ==
    /\ rn_pc = "loop"
    /\ rn_k > Len(PIPELINE_STEPS)
    /\ IF rn_script = "orchestrator"
       THEN \E response \in Responses :
               LET sent == notify(rn_env, response)
               IN  /\ rn_notes' = Append(rn_notes, Note("summary", sent.posted))
                   /\ IF sent.raised
                      THEN /\ rn_error' = "RequestException"
                           /\ rn_pc' = "except"
                           /\ rn_status' = rn_status
                      ELSE /\ rn_error' = rn_error
                           /\ rn_pc' = "exited"
                           /\ rn_status' = PyInt(0)
       ELSE /\ rn_notes' = rn_notes
            /\ rn_error' = rn_error
            /\ rn_pc' = "exited"
            /\ rn_status' = PyInt(0)
    /\ UNCHANGED <<fp_tie, st_vars, cn_vars, dv_vars, mm_vars, sc_vars, rt_vars, pl_vars,
                   rn_script, rn_env, rn_k, rn_log>>

\* "except Exception as e" of the script: the failure is printed and, in
\* orchestrator.py, passed to notify, then sys.exit(1); an exception leaving
\* notify ends the script with status 1 as well
RunnerExcept ==
    /\ rn_pc = "except"
    /\ IF rn_script = "orchestrator"
       THEN \E response \in Responses :
               rn_notes' = Append(rn_notes, Note("failure", notify(rn_env, response).posted))
       ELSE rn_notes' = rn_notes
    /\ rn_pc' = "exited"
    /\ rn_status' = PyInt(1)
    /\ UNCHANGED <<fp_tie, st_vars, cn_vars, dv_vars, mm_vars, sc_vars, rt_vars, pl_vars,
                   rn_script, rn_env, rn_k, rn_error, rn_log>>

InitRunner ==
    /\ fp_tie = "even"
    /\ mm_idle
    /\ sc_idle
    /\ rt_idle
    /\ dv_idle
    /\ cn_idle
    /\ pl_idle
    /\ st_idle
    /\ rn_script \in {"run_full_pipeline", "orchestrator"}
    /\ rn_env \in [token : BOOLEAN, chat_id : BOOLEAN]
    /\ rn_pc = "loop"
    /\ rn_k = 1
    /\ rn_error = "none"
    /\ rn_log = <<>>
    /\ rn_notes = <<>>
    /\ rn_status = Null

NextRunner == RunStepStart \/ RunStepEnd \/ RunnerFinish \/ RunnerExcept

SpecRunner == InitRunner /\ [][NextRunner]_vars

-----------------------------------------------------------------------------
(* yfin_staging.py and screenr_stage.py: the fetch functions and main *)

\* max_retries: int = 3
max_retries == 3

\* base_delay: float = 3.0, in seconds
base_delay == 3

\* what one attempt can meet.  yfin_staging: info with a current price, info
\* without one, an exception whose text has "429" or "Too Many Requests", any
\* other exception.  screenr_stage: the page, an HTTPError with status 429 or
\* with another status, another exception with the 429 text or without it.
Outcomes(script) ==
    IF script = "yfin_staging"
    THEN {"info", "no_info", "raise_429", "raise_other"}
    ELSE {"page", "http_429", "http_other", "raise_429", "raise_other"}

\* the attempt got the data of the ticker
GotData(met) == met \in {"info", "page"}

\* the failure is one the except branches take for Too Many Requests
TooManyRequests(met) == met \in {"raise_429", "http_429"}

\* the dict a successful attempt returns
FetchedRow(ticker) == [ticker |-> ticker, fetched_at |-> "now"]

\* a row the staging table holds from an earlier run
StaleRow(ticker) == [ticker |-> ticker, fetched_at |-> "earlier"]

\* variant: every failure is retried while attempts are left
FetchAttempt_retries_all ==
    /\ st_pc = "fetch"
    /\ IF st_attempt > max_retries
       THEN /\ st_call' = [st_call EXCEPT !.ret = Null]
            /\ st_pc' = "returned"
            /\ st_attempt' = st_attempt
       ELSE \E met \in Outcomes(st_script) :
               LET tried == [st_call EXCEPT !.tries = Append(@, met)]
               IN  IF GotData(met)
                   THEN /\ st_call' = [tried EXCEPT !.ret = FetchedRow(st_tickers[st_i])]
                        /\ st_pc' = "returned"
                        /\ st_attempt' = st_attempt
                   ELSE IF met # "no_info" /\ st_attempt < max_retries
                   THEN /\ st_call' = [tried EXCEPT !.sleeps = Append(@, base_delay * st_attempt)]
                        /\ st_pc' = st_pc
                        /\ st_attempt' = st_attempt + 1
                   ELSE /\ st_call' = [tried EXCEPT !.ret = Null]
                        /\ st_pc' = "returned"
                        /\ st_attempt' = st_attempt
    /\ UNCHANGED <<fp_tie, cn_vars, dv_vars, mm_vars, sc_vars, rt_vars, pl_vars, rn_vars,
                   st_script, st_tickers, st_i, st_fetched, st_stage, st_upserts>>

\* one pass of "for attempt in range(1, max_retries + 1)" of the fetch function,
\* or the code behind the loop when the range is used up
FetchAttempt ==
    /\ st_pc = "fetch"
    /\ IF st_attempt > max_retries
       THEN /\ st_call' = [st_call EXCEPT !.ret = Null]
            /\ st_pc' = "returned"
            /\ st_attempt' = st_attempt
       ELSE \E met \in Outcomes(st_script) :
               LET tried == [st_call EXCEPT !.tries = Append(@, met)]
               IN  IF GotData(met)
                   THEN /\ st_call' = [tried EXCEPT !.ret = FetchedRow(st_tickers[st_i])]
                        /\ st_pc' = "returned"
                        /\ st_attempt' = st_attempt
                   ELSE IF TooManyRequests(met) /\ st_attempt < max_retries
                   THEN /\ st_call' = [tried EXCEPT !.sleeps = Append(@, base_delay * st_attempt)]
                        /\ st_pc' = st_pc
                        /\ st_attempt' = st_attempt + 1
                   ELSE /\ st_call' = [tried EXCEPT !.ret = Null]
                        /\ st_pc' = "returned"
                        /\ st_attempt' = st_attempt
    /\ UNCHANGED <<fp_tie, cn_vars, dv_vars, mm_vars, sc_vars, rt_vars, pl_vars, rn_vars,
                   st_script, st_tickers, st_i, st_fetched, st_stage, st_upserts>>

\* variant: a ticker without data ends the loop
StagingStep_stops_at_gap ==
    /\ st_pc = "returned"
    /\ st_fetched' = Append(st_fetched, [ticker   |-> st_tickers[st_i],
                                         attempts |-> Len(st_call.tries),
                                         data     |-> st_call.ret # Null])
    /\ IF st_call.ret = Null
       THEN /\ UNCHANGED <<st_stage, st_upserts, st_i>>
            /\ st_pc' = "done"
       ELSE /\ st_stage' = Upsert(st_stage, st_call.ret)
            /\ st_upserts' = Append(st_upserts, st_call.ret)
            /\ st_i' = st_i + 1
            /\ st_pc' = IF st_i < Len(st_tickers) THEN "fetch" ELSE "done"
    /\ st_attempt' = 1
    /\ st_call' = NoCall
    /\ UNCHANGED <<fp_tie, cn_vars, dv_vars, mm_vars, sc_vars, rt_vars, pl_vars, rn_vars,
                   st_script, st_tickers>>

\* the rest of one pass of the loop of main after the fetch function returned:
\* "if data: upsert(...) else: skip", then the next ticker is fetched
StagingStep ==
    /\ st_pc = "returned"
    /\ st_fetched' = Append(st_fetched, [ticker   |-> st_tickers[st_i],
                                         attempts |-> Len(st_call.tries),
                                         data     |-> st_call.ret # Null])
    /\ IF st_call.ret = Null
       THEN UNCHANGED <<st_stage, st_upserts>>
       ELSE /\ st_stage' = Upsert(st_stage, st_call.ret)
            /\ st_upserts' = Append(st_upserts, st_call.ret)
    /\ st_i' = st_i + 1
    /\ st_pc' = IF st_i < Len(st_tickers) THEN "fetch" ELSE "done"
    /\ st_attempt' = 1
    /\ st_call' = NoCall
    /\ UNCHANGED <<fp_tie, cn_vars, dv_vars, mm_vars, sc_vars, rt_vars, pl_vars, rn_vars,
                   st_script, st_tickers>>

\* the tickers of master_universe
Universe == <<"T1", "T2", "T3">>

\* tickers[:max_tickers] if max_tickers > 0
Capped(tickers, max_tickers) ==
    IF max_tickers > 0
    THEN SubSeq(tickers, 1, IF max_tickers < Len(tickers) THEN max_tickers ELSE Len(tickers))
    ELSE tickers

InitStaging ==
    /\ fp_tie = "even"
    /\ mm_idle
    /\ sc_idle
    /\ rt_idle
    /\ dv_idle
    /\ cn_idle
    /\ pl_idle
    /\ rn_idle
    /\ st_script \in {"yfin_staging", "screenr_stage"}
    /\ \E tickers \in {<<>>, Universe}, max_tickers \in 0..Len(Universe) :
          st_tickers = Capped(tickers, max_tickers)
    /\ st_i = 1
    /\ st_pc = IF st_tickers = <<>> THEN "done" ELSE "fetch"
    /\ st_attempt = 1
    /\ st_call = NoCall
    /\ st_fetched = <<>>
    /\ st_stage \in { EmptyRow,
                      [t \in { Universe[i] : i \in 1..Len(Universe) } |-> StaleRow(t)] }
    /\ st_upserts = <<>>

NextStaging == FetchAttempt \/ StagingStep

SpecStaging == InitStaging /\ [][NextStaging]_vars

-----------------------------------------------------------------------------
(* Properties of a ratings run *)

Ranked(row) == row.rank.kind = "int"

\* C1: after a ratings run over N tickers the ranks of the batch are exactly
\* 1..N, each used once, for every N >= 0 and whatever the composite scores
\* (equal ones included).
C1_RanksArePermutation ==
    rt_pc = "done" =>
        LET n == Len(cons_master)
        IN  /\ Len(ratings_entries) = n
            /\ { ratings_entries[i].ticker : i \in 1..n } = { cons_master[i].ticker : i \in 1..n }
            /\ \A i \in 1..n : Ranked(ratings_entries[i])
            /\ \A r \in 1..n :
                 Cardinality({ i \in 1..n : ratings_entries[i].rank.val = r }) = 1
            /\ \A t \in DOMAIN ratings_master : ratings_master[t] \in
                 { ratings_entries[i] : i \in 1..n }

\* a finished run over three tickers, two of them with the same composite score
C1_Witness ==
    /\ rt_pc = "done"
    /\ Len(ratings_entries) = 3
    /\ ratings_entries[1].composite_score = ratings_entries[2].composite_score
    /\ ratings_entries[2].composite_score # ratings_entries[3].composite_score

\* C2: ranks follow descending composite score: rank(a) < rank(b) implies
\* composite(a) >= composite(b), a null composite counting as lower than every
\* number, so that null-scored tickers come after all scored ones.
C2_RanksFollowComposite ==
    rt_pc = "done" =>
        \A a, b \in 1..Len(ratings_entries) :
            LET ra == ratings_entries[a]
                rb == ratings_entries[b]
            IN  (Ranked(ra) /\ Ranked(rb) /\ ra.rank.val < rb.rank.val) =>
                    \/ IsNull(rb.composite_score)
                    \/ /\ IsNum(ra.composite_score)
                       /\ IsNum(rb.composite_score)
                       /\ ra.composite_score.val >= rb.composite_score.val

\* a finished run in which the batch was not in descending order of score
C2_Witness ==
    /\ rt_pc = "done"
    /\ Len(ratings_entries) = 3
    /\ ratings_entries[1].ticker = "T3"
    /\ ratings_entries[3].ticker = "T1"
    /\ ratings_entries[1].composite_score.val > ratings_entries[2].composite_score.val
    /\ ratings_entries[2].composite_score.val > ratings_entries[3].composite_score.val

\* C3: ranking is a barrier: no ticker has a rank and no ratings row is written
\* before the composite score of every ticker of the batch is computed; until
\* then the rank of every row is null.
C3_RankingIsBarrier ==
    LET scored == { ratings_entries[i].ticker : i \in 1..Len(ratings_entries) }
        batch  == { cons_master[i].ticker : i \in 1..Len(cons_master) }
    IN  /\ (upsert_log # <<>> \/ \E i \in 1..Len(ratings_entries) : Ranked(ratings_entries[i]))
              => /\ scored = batch
                 /\ \A i \in 1..Len(ratings_entries) : IsNum(ratings_entries[i].composite_score)
        /\ scored # batch =>
              /\ \A i \in 1..Len(ratings_entries) : IsNull(ratings_entries[i].rank)
              /\ DOMAIN ratings_master = {}

\* the first row has its rank and is written, all three tickers being scored
C3_Witness ==
    /\ rt_pc = "rank"
    /\ Len(cons_master) = 3
    /\ Len(upsert_log) = 1
    /\ Ranked(ratings_entries[1])
    /\ IsNull(ratings_entries[2].rank)

\* the batch of the end-to-end example: a ticker scoring 85, one scoring 60 and
\* one with nothing to score (no derived row, no P/E)
ExampleBatch ==
    /\ Len(cons_master) = 3
    /\ \A i \in 1..2 : cons_master[i].ticker \in DOMAIN derived_master
    /\ derived_master["T1"] = LevelRow(85)
    /\ cons_master[1].pe_ratio_trailing = LevelCons(85).pe_ratio_trailing
    /\ derived_master["T2"] = LevelRow(60)
    /\ cons_master[2].pe_ratio_trailing = LevelCons(60).pe_ratio_trailing
    /\ cons_master[3].ticker \notin DOMAIN derived_master
    /\ IsNull(cons_master[3].pe_ratio_trailing)

EntryOf(t) == ratings_entries[CHOOSE i \in 1..Len(ratings_entries) : ratings_entries[i].ticker = t]

\* C5 as stated: the batch with composite scores 85, 60 and null gets ranks 1, 2, 3
\* and grades A/BUY, C/HOLD, D/AVOID.
C5_NullCompositeExample ==
    (rt_pc = "done" /\ ExampleBatch) =>
        /\ EntryOf("T1").composite_score = Num(85000)
        /\ EntryOf("T2").composite_score = Num(60000)
        /\ IsNull(EntryOf("T3").composite_score)
        /\ <<EntryOf("T1").rank.val, EntryOf("T2").rank.val, EntryOf("T3").rank.val>> = <<1, 2, 3>>
        /\ <<EntryOf("T1").rating, EntryOf("T1").action>> = <<"A", "BUY">>
        /\ <<EntryOf("T2").rating, EntryOf("T2").action>> = <<"C", "HOLD">>
        /\ <<EntryOf("T3").rating, EntryOf("T3").action>> = <<"D", "AVOID">>

\* C5 amended: a ticker with nothing to score has composite score 0, never null;
\* the batch scoring 85, 60 and 0 gets ranks 1, 2, 3 and grades A/BUY, C/HOLD,
\* D/AVOID, and in general a ticker with nothing to score is banded (D, AVOID)
\* and ranked.
C5_UnscoredTickerExample ==
    rt_pc = "done" =>
        /\ ExampleBatch =>
            /\ EntryOf("T1").composite_score = Num(85000)
            /\ EntryOf("T2").composite_score = Num(60000)
            /\ EntryOf("T3").composite_score = Num(0)
            /\ <<EntryOf("T1").rank.val, EntryOf("T2").rank.val, EntryOf("T3").rank.val>>
                 = <<1, 2, 3>>
            /\ <<EntryOf("T1").rating, EntryOf("T1").action>> = <<"A", "BUY">>
            /\ <<EntryOf("T2").rating, EntryOf("T2").action>> = <<"C", "HOLD">>
            /\ <<EntryOf("T3").rating, EntryOf("T3").action>> = <<"D", "AVOID">>
        /\ \A i \in 1..Len(cons_master) :
             (cons_master[i].ticker \notin DOMAIN derived_master
              /\ IsNull(cons_master[i].pe_ratio_trailing)) =>
                LET e == EntryOf(cons_master[i].ticker)
                IN  /\ e.composite_score = Num(0)
                    /\ <<e.rating, e.action>> = <<"D", "AVOID">>
                    /\ Ranked(e)
                    /\ e.rank.val \in 1..Len(cons_master)
                    /\ ratings_master[e.ticker] = e

C5_Witness == rt_pc = "done" /\ ExampleBatch /\ EntryOf("T3").rank.val = 3

-----------------------------------------------------------------------------
(* Properties of compute_derived *)

\* the computed fields with the snapshot columns each is computed from; the
\* last operand listed is the denominator
OperandsOf ==
    [price_return_3m_pct        |-> <<"current_price", "price_3m_ago">>,
     price_return_6m_pct        |-> <<"current_price", "price_6m_ago">>,
     price_return_12m_pct       |-> <<"current_price", "price_12m_ago">>,
     ytd_return_pct             |-> <<"current_price", "previous_close">>,
     market_cap_to_revenue      |-> <<"market_cap", "total_revenue">>,
     enterprise_value_to_ebitda |-> <<"enterprise_value", "ebitda">>,
     net_margin_pct             |-> <<"net_income", "total_revenue">>,
     eps_growth_3m_pct          |-> <<"earnings_per_share", "eps_3m_ago">>,
     eps_growth_6m_pct          |-> <<"earnings_per_share", "eps_6m_ago">>,
     eps_growth_12m_pct         |-> <<"earnings_per_share", "eps_12m_ago">>,
     revenue_growth_3m_pct      |-> <<"total_revenue", "revenue_3m_ago">>,
     revenue_growth_6m_pct      |-> <<"total_revenue", "revenue_6m_ago">>,
     revenue_growth_12m_pct     |-> <<"total_revenue", "revenue_12m_ago">>,
     book_to_price_ratio        |-> <<"book_value_per_share", "current_price">>,
     peg_ratio                  |-> <<"pe_ratio_trailing", "eps_growth">>,
     free_cash_flow_margin      |-> <<"free_cash_flow", "total_revenue">>,
     operating_cash_flow_margin |-> <<"operating_cash_flow", "total_revenue">>,
     dividend_payout_ratio      |-> <<"dividend_yield", "earnings_per_share">>,
     upside_potential_pct       |-> <<"analyst_target_price", "current_price">>]

\* a raw value that is no number: None, nan, empty or blank text, text that is
\* no numeral once separators and percent signs are gone
NoNumber(v) ==
    \/ v.kind \in {"null", "nan"}
    \/ /\ v.kind = "text"
       /\ \/ \A i \in 1..Len(v.val) : v.val[i] = " "
          \/ \E i \in 1..Len(v.val) : ~(IsDigit(v.val[i]) \/ v.val[i] \in {".", ",", "%", " "})

\* a raw value that is the number 0
IsZero(v) == v = Num(0)

\* C10: compute_derived never raises, and every computed field is null whenever
\* one of its operands is null or unparseable or its denominator is zero, the
\* 52-week position also when high = low.
C10_DegradesToNull ==
    /\ dv_pc # "raised"
    /\ dv_pc = "returned" =>
        /\ \A k \in DOMAIN OperandsOf :
             LET ops == OperandsOf[k]
             IN  ((\E i \in 1..Len(ops) : NoNumber(dv_row[ops[i]]))
                  \/ IsZero(dv_row[ops[Len(ops)]]))
                    => IsNull(dv_out.derived[k])
        /\ (\/ NoNumber(dv_row["current_price"])
            \/ NoNumber(dv_row["fifty_two_week_high"])
            \/ NoNumber(dv_row["fifty_two_week_low"])
            \/ dv_row["fifty_two_week_high"] = dv_row["fifty_two_week_low"])
              => IsNull(dv_out.derived["position_52w_pct"])
        /\ IsNull(dv_out.derived["pe_discount_vs_sector"])

\* a row whose 52-week high equals its low, with a price, and one unparseable column
C10_Witness ==
    /\ dv_pc = "returned"
    /\ dv_row["current_price"] = Num(50000)
    /\ dv_row["fifty_two_week_high"] = Num(100000)
    /\ dv_row["fifty_two_week_low"] = Num(100000)
    /\ dv_row["price_3m_ago"] = Text(<<"a", "b", "c">>)
    /\ IsNull(dv_out.derived["position_52w_pct"])
    /\ IsNull(dv_out.derived["price_return_3m_pct"])
    /\ IsNum(dv_out.derived["price_return_6m_pct"])

\* a raw value the sanitizer leaves as it is: a number of 2 decimals within the limit
PlainNumber(v) == IsNum(v) /\ v.val % 10 = 0 /\ Abs(v.val) <= max_value_default

\* the fields that are a change in percent, (current - reference) / reference * 100
ChangeFields ==
    {"price_return_3m_pct", "price_return_6m_pct", "price_return_12m_pct", "ytd_return_pct",
     "eps_growth_3m_pct", "eps_growth_6m_pct", "eps_growth_12m_pct",
     "revenue_growth_3m_pct", "revenue_growth_6m_pct", "revenue_growth_12m_pct"}

\* the fields that are a share in percent, numerator / denominator * 100
MarginFields == {"net_margin_pct", "free_cash_flow_margin", "operating_cash_flow_margin"}

\* the formula of the specification for field k on the drawn row, as a fraction
FormulaOfSpec(k) ==
    LET num == dv_row[OperandsOf[k][1]].val
        den == dv_row[OperandsOf[k][2]].val
    IN  IF k \in ChangeFields THEN Frac(100 * (num - den), den) ELSE Frac(100 * num, den)

\* C11: for the return, growth and margin fields, whenever every operand is
\* non-null and the denominator is non-zero the result is non-null and equals
\* the formula rounded to 2 decimals, a zero current value or numerator included.
C11_FormulaWheneverDefined ==
    dv_pc = "returned" =>
        \A k \in ChangeFields \cup MarginFields :
            (/\ PlainNumber(dv_row[OperandsOf[k][1]])
             /\ PlainNumber(dv_row[OperandsOf[k][2]])
             /\ dv_row[OperandsOf[k][2]].val # 0)
                => /\ IsNum(dv_out.derived[k])
                   /\ IsRounded2(dv_out.derived[k], FormulaOfSpec(k))

\* C12: position_52w_pct is (current - low) / (high - low) * 100 for non-null
\* current, low and high with high # low, zero values included, and is null
\* exactly when an operand is null or high = low.
C12_PositionWheneverDefined ==
    dv_pc = "returned" =>
        LET cp   == dv_row["current_price"]
            low  == dv_row["fifty_two_week_low"]
            high == dv_row["fifty_two_week_high"]
            out  == dv_out.derived["position_52w_pct"]
        IN  (PlainNumber(cp) /\ PlainNumber(low) /\ PlainNumber(high)) =>
                IF high.val = low.val THEN IsNull(out)
                ELSE /\ IsNum(out)
                     /\ IsRounded2(out, Frac(100 * (cp.val - low.val), high.val - low.val))

-----------------------------------------------------------------------------
(* Properties of clean_numeric *)

\* text without the marks in the set marks and without outer blanks
Unmarked(chars, marks) == Strip(SelectSeq(chars, LAMBDA x : x \notin marks))

\* a decimal numeral: an optional sign, digits with at most one point among them
IsNumeral(t) ==
    LET body == IF t # <<>> /\ Head(t) \in {"+", "-"} THEN Tail(t) ELSE t
    IN  /\ \A i \in 1..Len(body) : IsDigit(body[i]) \/ body[i] = "."
        /\ Cardinality({ i \in 1..Len(body) : body[i] = "." }) <= 1
        /\ \E i \in 1..Len(body) : IsDigit(body[i])

\* one of the words float() reads as well: nan, inf, with any sign and case
IsFloatWord(t) ==
    LET body == IF t # <<>> /\ Head(t) \in {"+", "-"} THEN Tail(t) ELSE t
    IN  [i \in 1..Len(body) |-> Lower(body[i])] \in {<<"n", "a", "n">>, <<"i", "n", "f">>}

\* a value sanitize has nothing to return for: null, NaN, a value of another
\* type, text that is empty, blank, or neither numeral nor float word once
\* separators and percent signs are removed
NothingToClean(v) ==
    \/ v.kind \in {"null", "nan", "bool", "list"}
    \/ /\ v.kind = "text"
       /\ LET t == Unmarked(v.val, {",", "%"})
          IN  t = <<>> \/ (~IsNumeral(t) /\ ~IsFloatWord(t))

\* C13: clean_numeric never raises, and returns null for null, empty or blank
\* text, unparseable text, NaN and values of non-numeric types.
C13_CleanNeverRaises ==
    /\ cn_pc # "raised"
    /\ (cn_pc = "returned" /\ NothingToClean(cn_args.value)) => IsNull(cn_out)

\* text float() refuses went in and null came out
C13_Witness ==
    /\ cn_pc = "returned"
    /\ cn_args.value = Text(<<"1", ".", "2", ".", "3">>)
    /\ IsNull(cn_out)

\* C14: for a numeric string decorated with thousands separators, a percent
\* sign or a currency symbol, clean_numeric returns the value of the
\* undecorated string ("$1,234.50" gives 1234.50).
C14_DecoratedStringValue ==
    (cn_pc = "returned" /\ cn_args.value.kind = "text") =>
        LET t == Unmarked(cn_args.value.val, {",", "%", "$"})
            x == ParseFloat(t)
        IN  (IsNumeral(t) /\ Abs(x.n) * 1000 <= cn_args.max_value * x.d) =>
                /\ IsNum(cn_out)
                /\ IsRounded2(cn_out, Frac(x.n, x.d))

\* C15: a non-null result of clean_numeric(value, max_value) lies within
\* -max_value..max_value and has 2 decimals; a value above max_value, +infinity
\* included, gives max_value and a value below -max_value gives -max_value.
C15_ResultWithinLimit ==
    cn_pc = "returned" =>
        LET v   == cn_args.value
            max == cn_args.max_value
        IN  /\ ~IsNull(cn_out) =>
                /\ IsNum(cn_out)
                /\ cn_out.val % 10 = 0
                /\ -max <= cn_out.val /\ cn_out.val <= max
            /\ ((IsNum(v) /\ v.val > max) \/ v = Inf(1)) => cn_out = Num(max)
            /\ ((IsNum(v) /\ v.val < -max) \/ v = Inf(-1)) => cn_out = Num(-max)

\* a number beyond the limit of the screener stages came back as the limit
C15_Witness ==
    /\ cn_pc = "returned"
    /\ cn_args = [value |-> Num(-1000000), max_value |-> max_value_screenr]
    /\ cn_out = Num(-max_value_screenr)

-----------------------------------------------------------------------------
(* Properties of the derived record *)

DerivedNames ==
    DOMAIN OperandsOf
        \cup {"position_52w_pct", "pe_discount_vs_sector", "gross_margin_pct",
              "operating_margin_pct", "dividend_yield_pct", "beta", "debt_to_equity"}

\* C16: every field of the record compute_derived returns, the pass-through
\* fields included, is null or a finite number of 2 decimals; NaN and infinity
\* never appear.
C16_DerivedFieldsFinite ==
    dv_pc = "returned" =>
        /\ DOMAIN dv_out.derived = DerivedNames
        /\ \A k \in DerivedNames :
             \/ IsNull(dv_out.derived[k])
             \/ /\ IsNum(dv_out.derived[k])
                /\ dv_out.derived[k].val % 10 = 0

\* NaN in a pass-through column and infinity in an operand came out as null and
\* as numbers
C16_Witness ==
    /\ dv_pc = "returned"
    /\ dv_row["beta"] = NaN
    /\ IsNull(dv_out.derived["beta"])
    /\ IsNum(dv_out.derived["price_return_6m_pct"])
    /\ IsNum(dv_out.derived["gross_margin_pct"])

\* C19: pe_discount_vs_sector is null in the output of compute_derived for every
\* snapshot row, whatever pe_ratio_trailing holds.
C19_PeDiscountAlwaysNull ==
    dv_pc = "returned" => IsNull(dv_out.derived["pe_discount_vs_sector"])

\* a row with a trailing P/E of 50 has been derived
C19_Witness ==
    /\ dv_pc = "returned"
    /\ dv_row["pe_ratio_trailing"] = Num(50000)
    /\ IsNull(dv_out.derived["pe_discount_vs_sector"])

-----------------------------------------------------------------------------
(* Properties of score_from_row on malformed values *)

\* C17: no exception escapes score_from_row for derived and raw rows whose
\* fields are numbers, null or text, for an empty derived row and for an absent
\* raw row; a malformed value is treated as null.
C17_ScoringNeverRaises == sc_pc # "raised"

\* the table row as the sanitizer would hand it on
sanitized(row) == [f \in DOMAIN row |-> clean_numeric(row[f], max_value_default)]

\* C18: every numeric field read by the scoring engine has passed through the
\* sanitizer before it reaches minmax_score, so scoring the fields of the tables
\* is scoring their sanitized values (compute_derived reads its fields through
\* cleaned).
C18_ScoringReadsSanitized ==
    sc_pc \in {"returned", "raised"} =>
        sc_out = score_from_row(sanitized(sc_row), sanitized(sc_cons))

-----------------------------------------------------------------------------
(* Properties of two runs of the pipeline *)

\* C20: running the derive, score and rank stages twice on the same unchanged
\* sequence of raw snapshots yields identical derived records and identical
\* scored records, including grade, action and rank of every ticker.
C20_SecondRunIdentical ==
    pl_pc = "done" =>
        /\ derived_master = pl_first.derived
        /\ ratings_master = pl_first.ratings

\* the rows of a table without the date of the run that wrote them
Undated(table) ==
    [t \in DOMAIN table |->
        [k \in DOMAIN table[t] \ {"snapshot_date", "rating_date"} |-> table[t][k]]]

\* the dates the rows of a table carry
DatesIn(table) ==
    UNION { { table[t][k] : k \in {"snapshot_date", "rating_date"} \cap DOMAIN table[t] } :
            t \in DOMAIN table }

\* C20 (as amended): the second run leaves every record as the first left it in
\* all fields except snapshot_date and rating_date, which carry the date of the
\* run; records of two runs on one date are identical.
C20_SecondRunIdenticalButDates ==
    pl_pc = "done" =>
        /\ Undated(derived_master) = Undated(pl_first.derived)
        /\ Undated(ratings_master) = Undated(pl_first.ratings)
        /\ (DatesIn(derived_master) \cup DatesIn(ratings_master)
              = DatesIn(pl_first.derived) \cup DatesIn(pl_first.ratings)
            /\ Cardinality(DatesIn(derived_master) \cup DatesIn(ratings_master)) <= 1)
             => /\ derived_master = pl_first.derived
                /\ ratings_master = pl_first.ratings

\* three tickers, two of them with equal scores, ranked twice, the second time
\* on the next day
C20_Witness ==
    /\ pl_pc = "done"
    /\ Len(cons_master) = 3
    /\ \E t \in DOMAIN ratings_master : ratings_master[t].rank = PyInt(3)
    /\ \E t, u \in DOMAIN ratings_master :
          /\ t # u
          /\ ratings_master[t].composite_score = ratings_master[u].composite_score
    /\ \E t, u \in DOMAIN ratings_master :
          ratings_master[t].rating # ratings_master[u].rating
    /\ DatesIn(pl_first.ratings) = {Days[1]}
    /\ DatesIn(ratings_master) = {Days[2]}

-----------------------------------------------------------------------------
(* Properties of the order of the batch *)

\* the fields of a ratings row that the engine computes
ResultFields ==
    {"momentum_score", "quality_score", "valuation_score", "growth_score",
     "financial_stability_score", "cash_flow_score", "composite_score", "rating", "action",
     "rank"}

\* C21: batch results do not depend on the processing order: for a given set of
\* raw snapshots every order in which the per-ticker steps complete yields the
\* same scores, the same grades and the same rank for every ticker.
C21_OrderIndependent ==
    (pl_run = 2 /\ rt_pc = "done") =>
        \A t \in DOMAIN ratings_master :
            \A k \in ResultFields : ratings_master[t][k] = pl_first.ratings[t][k]

\* the six category scores of a ratings row
CategoryFields ==
    {"momentum_score", "quality_score", "valuation_score", "growth_score",
     "financial_stability_score", "cash_flow_score"}

\* the ratings row written for the ticker at position i of the batch
WrittenFor(i) == ratings_master[cons_master[i].ticker]

SameCategories(a, b) == \A k \in CategoryFields : a[k] = b[k]

\* C22: two tickers with identical category scores receive identical composite
\* scores, identical grade and action, and adjacent ranks whose relative order
\* is the tickers' order in the input batch.
C22_TiesAdjacentInInputOrder ==
    rt_pc = "done" =>
        \A i, j \in 1..Len(cons_master) :
            (i < j /\ SameCategories(WrittenFor(i), WrittenFor(j))) =>
                /\ WrittenFor(i).composite_score = WrittenFor(j).composite_score
                /\ WrittenFor(i).rating = WrittenFor(j).rating
                /\ WrittenFor(i).action = WrittenFor(j).action
                /\ WrittenFor(j).rank.val = WrittenFor(i).rank.val + 1

\* C22 (as amended): two tickers with identical category scores receive
\* identical composite scores, identical grade and action, and ranks in the
\* tickers' order in the input batch, with nothing ranked between them but
\* tickers of the same composite score.
C22_TiesContiguousInInputOrder ==
    rt_pc = "done" =>
        \A i, j \in 1..Len(cons_master) :
            (i < j /\ SameCategories(WrittenFor(i), WrittenFor(j))) =>
                /\ WrittenFor(i).composite_score = WrittenFor(j).composite_score
                /\ WrittenFor(i).rating = WrittenFor(j).rating
                /\ WrittenFor(i).action = WrittenFor(j).action
                /\ WrittenFor(i).rank.val < WrittenFor(j).rank.val
                /\ \A m \in 1..Len(cons_master) :
                      (/\ WrittenFor(i).rank.val < WrittenFor(m).rank.val
                       /\ WrittenFor(m).rank.val < WrittenFor(j).rank.val)
                        => WrittenFor(m).composite_score = WrittenFor(i).composite_score

\* the first and the last of three tickers have the same category scores and the
\* one between them the same composite score: ranks 1, 2 and 3
C22_Witness ==
    /\ rt_pc = "done"
    /\ Len(cons_master) = 3
    /\ SameCategories(WrittenFor(1), WrittenFor(3))
    /\ WrittenFor(1).rank = PyInt(1)
    /\ WrittenFor(2).rank = PyInt(2)
    /\ WrittenFor(3).rank = PyInt(3)

\* the row at position i of the batch has nothing to score: no derived row and
\* no trailing P/E
Unscored(i) ==
    /\ cons_master[i].ticker \notin DOMAIN derived_master
    /\ IsNull(cons_master[i].pe_ratio_trailing)

\* C23: the composite score of a row built by calc_ratings.main is never null,
\* so the sort never uses the key -999; a missing sub-factor contributes 0, the
\* inverted ones included, and a ticker with no derived row and no P/E has every
\* category score and the composite at 0 and is banded (D, AVOID).
C23_CompositeNeverNull ==
    \A e \in 1..Len(ratings_entries) :
        LET row == ratings_entries[e]
        IN  /\ IsNum(row.composite_score)
            /\ SortKey(row) = row.composite_score.val
            /\ \A i \in 1..Len(cons_master) :
                  (cons_master[i].ticker = row.ticker /\ Unscored(i)) =>
                      /\ \A k \in CategoryFields : row[k] = Num(0)
                      /\ row.composite_score = Num(0)
                      /\ row.rating = "D"
                      /\ row.action = "AVOID"

\* a sorted batch of a ticker with nothing to score and two scored ones
C23_Witness ==
    /\ rt_pc = "rank"
    /\ Len(ratings_entries) = 3
    /\ Unscored(2)
    /\ ratings_entries[3].ticker = "T2"
    /\ ratings_entries[3].composite_score = Num(0)
    /\ ratings_entries[1].composite_score.val > 0

\* the place of a grade in the order A > B > C > D
GradeLevel(rating) ==
    CASE rating = "A" -> 4
      [] rating = "B" -> 3
      [] rating = "C" -> 2
      [] rating = "D" -> 1

\* C24: grade is monotone in rank: within one ranked batch rank(a) < rank(b)
\* implies that the grade of a is at least as good as the grade of b.
C24_GradeMonotoneInRank ==
    rt_pc = "done" =>
        \A t, u \in DOMAIN ratings_master :
            ratings_master[t].rank.val < ratings_master[u].rank.val =>
                GradeLevel(ratings_master[t].rating) >= GradeLevel(ratings_master[u].rating)

\* a ranked batch that was fetched in ascending order of score and holds three
\* grades
C24_Witness ==
    /\ rt_pc = "done"
    /\ Len(cons_master) = 3
    /\ WrittenFor(3).rank = PyInt(1)
    /\ WrittenFor(1).rank = PyInt(3)
    /\ Cardinality({ ratings_master[t].rating : t \in DOMAIN ratings_master }) = 3

-----------------------------------------------------------------------------
(* Properties of the pipeline runners *)

\* the event ends the run of the steps: a missing script or an exit code other
\* than 0
Fatal(e) == e.ev = "missing" \/ (e.ev = "exit" /\ e.code # 0)

\* the events of the step at position m of PIPELINE_STEPS
StepEvents(m) == { p \in 1..Len(rn_log) : rn_log[p].script = PIPELINE_STEPS[m] }

\* C25: the runners execute PIPELINE_STEPS strictly in the listed order and fail
\* fast: a step starts only after the step before it has exited with code 0,
\* after a missing script or a non-zero exit nothing more is started and the
\* runner exits with status 1; the ratings calculation never starts unless the
\* derived-values calculation of the same run has succeeded.
C25_StepsInOrderFailFast ==
    /\ \A p \in 1..Len(rn_log) :
          /\ rn_log[p].script = PIPELINE_STEPS[(p + 1) \div 2]
          /\ p % 2 = 1 => rn_log[p].ev \in {"start", "missing"}
          /\ p % 2 = 0 => rn_log[p].ev = "exit" /\ rn_log[p - 1].ev = "start"
          /\ (p > 1 /\ rn_log[p].ev \in {"start", "missing"}) =>
                rn_log[p - 1] = Event("exit", PIPELINE_STEPS[(p - 1) \div 2], 0)
          /\ Fatal(rn_log[p]) => p = Len(rn_log)
    /\ (rn_log # <<>> /\ Fatal(rn_log[Len(rn_log)])) =>
          /\ rn_pc \in {"except", "exited"}
          /\ rn_pc = "exited" => rn_status = PyInt(1)
    /\ \A p \in 1..Len(rn_log) :
          rn_log[p] = Event("start", "calc_ratings.py", -1) =>
              \E q \in 1..(p - 1) : rn_log[q] = Event("exit", "calc_derived_value.py", 0)

\* the derived-values calculation has exited with code 2 and the runner with
\* status 1, four steps having succeeded before
C25_Witness ==
    /\ rn_pc = "exited"
    /\ rn_status = PyInt(1)
    /\ Len(rn_log) = 10
    /\ rn_log[10] = Event("exit", "calc_derived_value.py", 2)

\* C26: every orchestrator run makes exactly one notification attempt: the
\* success summary if and only if all steps succeeded, otherwise a single
\* failure message followed by exit status 1; a notification that fails or is
\* not configured never raises and never changes the exit status.
C26_OneNotification ==
    rn_script = "orchestrator" =>
        /\ Len(rn_notes) <= 1
        /\ rn_pc = "exited" =>
              LET succeeded == /\ Len(rn_log) = 2 * Len(PIPELINE_STEPS)
                               /\ \A p \in 1..Len(rn_log) : ~Fatal(rn_log[p])
              IN  /\ Len(rn_notes) = 1
                  /\ rn_notes[1].msg = IF succeeded THEN "summary" ELSE "failure"
                  /\ rn_status = IF succeeded THEN PyInt(0) ELSE PyInt(1)
                  /\ succeeded => rn_error = "none"

\* a run whose seven steps succeeded although the notification was not
\* configured, or was posted
C26_Witness ==
    /\ rn_script = "orchestrator"
    /\ rn_pc = "exited"
    /\ Len(rn_log) = 14
    /\ rn_status = PyInt(0)
    /\ rn_env.token /\ ~rn_env.chat_id
    /\ rn_notes = <<Note("summary", FALSE)>>

-----------------------------------------------------------------------------
(* Properties of the writes of a ratings run *)

\* C27: in a ratings run every row written to ratings_master carries its final,
\* non-null rank, each row of the batch is written exactly once, and the rows
\* are written in increasing order of rank, rank 1 first; no row with a null
\* rank is persisted.
C27_RowsWrittenOnceInRankOrder ==
    /\ \A w \in 1..Len(upsert_log) :
          /\ upsert_log[w].rank = PyInt(w)
          /\ rt_pc \in {"rank", "done"}
          /\ upsert_log[w] = ratings_entries[w]
          /\ \A v \in 1..Len(upsert_log) :
                upsert_log[v].ticker = upsert_log[w].ticker => v = w
    /\ \A t \in DOMAIN ratings_master :
          /\ Ranked(ratings_master[t])
          /\ \E w \in 1..Len(upsert_log) : upsert_log[w] = ratings_master[t]
    /\ rt_pc = "done" =>
          /\ Len(upsert_log) = Len(cons_master)
          /\ \A i \in 1..Len(cons_master) :
                Cardinality({ w \in 1..Len(upsert_log) :
                                upsert_log[w].ticker = cons_master[i].ticker }) = 1

\* the second of three rows has been written; the third still has no rank
C27_Witness ==
    /\ rt_pc = "rank"
    /\ Len(cons_master) = 3
    /\ Len(upsert_log) = 2
    /\ upsert_log[2].rank = PyInt(2)
    /\ upsert_log[2].ticker = "T1"
    /\ IsNull(ratings_entries[3].rank)

-----------------------------------------------------------------------------
(* Properties of the staging scripts *)

\* C28: the retry loop of the fetch functions ends after at most max_retries
\* attempts per ticker: an attempt is retried only when it fails with a 429 /
\* Too Many Requests error and attempt < max_retries, after a wait of
\* base_delay * attempt; any other failure, a response without data and a 429 on
\* the last attempt return None at once, and a successful attempt returns its
\* data without further attempts.
C28_RetryOnly429Bounded ==
    LET tries == st_call.tries
        n     == Len(tries)
    IN  /\ n <= max_retries
        /\ \A f \in 1..Len(st_fetched) : st_fetched[f].attempts \in 1..max_retries
        /\ Len(st_call.sleeps) = (IF st_pc = "returned" THEN n - 1 ELSE n)
        /\ \A k \in 1..Len(st_call.sleeps) :
              /\ st_call.sleeps[k] = base_delay * k
              /\ TooManyRequests(tries[k])
              /\ k < max_retries
        /\ st_pc = "fetch" => st_attempt = n + 1 /\ st_call.ret = Null
        /\ st_pc = "returned" =>
              /\ n >= 1
              /\ st_attempt = n
              /\ GotData(tries[n]) => st_call.ret = FetchedRow(st_tickers[st_i])
              /\ ~GotData(tries[n]) =>
                    /\ st_call.ret = Null
                    /\ TooManyRequests(tries[n]) => n = max_retries

\* the third attempt for a ticker met Too Many Requests like the two before it,
\* after waits of 3 and 6 seconds, and the function returned None
C28_Witness ==
    /\ st_pc = "returned"
    /\ st_call.tries = <<"http_429", "raise_429", "http_429">>
    /\ st_call.sleeps = <<3, 6>>
    /\ st_call.ret = Null
    /\ \E f \in 1..Len(st_fetched) : st_fetched[f].attempts = 2 /\ st_fetched[f].data

\* the positions of the calls that returned data
WithData == { f \in 1..Len(st_fetched) : st_fetched[f].data }

\* C29: in the staging loops a ticker whose fetch returns no data is skipped
\* without aborting the batch: no upsert is issued for it, its row in the staging
\* table is left as it was, and every later ticker of the list is still fetched,
\* in list order.
C29_GapSkippedBatchGoesOn ==
    /\ Len(st_fetched) <= Len(st_tickers)
    /\ \A f \in 1..Len(st_fetched) :
          /\ st_fetched[f].ticker = st_tickers[f]
          /\ ~st_fetched[f].data =>
                /\ \A u \in 1..Len(st_upserts) : st_upserts[u].ticker # st_tickers[f]
                /\ st_tickers[f] \in DOMAIN st_stage =>
                      st_stage[st_tickers[f]] = StaleRow(st_tickers[f])
          /\ st_fetched[f].data => st_stage[st_tickers[f]] = FetchedRow(st_tickers[f])
    /\ Len(st_upserts) = Cardinality(WithData)
    /\ \A u, v \in 1..Len(st_upserts) :
          u < v => \E f, g \in WithData :
                      /\ f < g
                      /\ st_upserts[u] = FetchedRow(st_tickers[f])
                      /\ st_upserts[v] = FetchedRow(st_tickers[g])
    /\ st_pc \in {"fetch", "returned"} => st_i = Len(st_fetched) + 1
    /\ st_pc = "done" <=> Len(st_fetched) = Len(st_tickers)

\* the first of three tickers had no data and keeps its earlier row; the two
\* behind it were fetched and written
C29_Witness ==
    /\ st_pc = "done"
    /\ Len(st_tickers) = 3
    /\ ~st_fetched[1].data
    /\ st_fetched[2].data
    /\ st_fetched[3].data
    /\ "T1" \in DOMAIN st_stage
    /\ st_stage["T1"] = StaleRow("T1")
    /\ st_upserts = <<FetchedRow("T2"), FetchedRow("T3")>>

-----------------------------------------------------------------------------
(* Properties of the definitions of clean_numeric *)

\* C30: the definitions of clean_numeric are equivalent for equal max_value: for
\* every input the clean_numeric bound to the name at the end of calc_ratings.py
\* returns what the definition of lines 12-28 returns (null, the clamped value,
\* rounded to 2 decimals).
C30_DefinitionsAgree ==
    (cn_pc = "returned" /\ cn_late # NotApplied) => cn_late = cn_out

====
